---------------------------- MODULE Spec2Model ----------------------------
(***************************************************************************)
(* Query-serving and streaming orchestration layer of the RAG service:     *)
(* the admission semaphore and readiness step of Runtime, the generator    *)
(* event source (sglang_stream), the producer thread / asyncio queue /     *)
(* consumer bridge of handle_query_stream, and the SSE framing of          *)
(* _sse_iter.                                                              *)
(*                                                                         *)
(* Text is a sequence of one-character strings.  An event is a record      *)
(* [ev, data] with data a text (for done/error events: the keys of the     *)
(* payload dictionary).                                                    *)
(***************************************************************************)
EXTENDS Integers, Sequences, FiniteSets, TLC

(***************************************************************************)
(* Bounds of the model.                                                    *)
(***************************************************************************)
\* number of requests issued to the process
NumReq == 3
\* number of chunks the model server sends in one generation
MaxChunks == 2
\* capacity of the bridge queue (asyncio.Queue(maxsize=100) in the source,
\* scaled down so that the full-queue case is reached)
QueueMaxSize == 2
\* C.MAX_CONCURRENCY (default 32 in the source, an environment setting)
MAX_CONCURRENCY == 1
\* number of session ids in use
NumSessions == 2
\* largest C.SESSION_MAX_COUNT considered (default 100 in the source)
MaxSessionCount == 1
\* number of Session Store calls in one run
MaxOps == 3
\* hours that pass in one run
MaxTime == 2
MaxFeeds == 3
\* number of nodes the Retriever returns at most
MaxNodes == 3
\* C.CTX_CHARS_PER_NODE (900 in the source) and C.CTX_MAX_TOTAL_CHARS (6000
\* in the source), scaled down with the lengths of the node texts
CTX_CHARS_PER_NODE == 2
CTX_MAX_TOTAL_CHARS == 3

Req == 1..NumReq
NoneVal == "None"

VARIABLES
    \* ---- configuration (core/config.py), fixed per process
    STREAM_COMPAT_DUP_CONTENT,
    REVEAL_FROM_ENABLED,
    ENABLE_QUERY_REPAIR,
    REVEAL_FALLBACK,
    repair_env,           \* what the model server may answer to a repair prompt
    \* ---- Runtime fields (core/runtime.py, Runtime.__init__)
    index,                \* Runtime._index
    retriever,            \* Runtime._retriever
    lazyload_attempted,   \* Runtime._lazyload_attempted
    sem_value,            \* Runtime._sem._value
    sem_waiters,          \* Runtime._sem._waiters (requests, in deque order)
    \* ---- environment of the lazy load: the candidate directories
    candidates,
    lazy_passes,          \* how many times the pass over the candidates ran
    \* ---- requests
    req,                  \* request body: [stream, session, eval_mode, query, think_mode]
    pc,                   \* where each request's task is suspended
    raised,               \* the exception that ended the handler, if any
    status,               \* HTTP outcome of the request
    frames,               \* frames yielded by _sse_iter for each streaming request
    work,                 \* each request's local variables in its handler
    unit,                 \* the last call of each function called on its own
    \* ---- the model server's answer to the streaming request
    chunks,               \* the deltas it sends
    failAt,               \* it raises when chunk failAt+1 is read (NoFail: never)
    \* ---- producer thread of handle_query_stream
    ppc,                  \* position of _producer
    gi,                   \* number of generator events consumed so far
    sent_content,
    produced,             \* every item the producer handed to queue.put, in order
    \* ---- event loop and asyncio.Queue
    ready,                \* loop._ready: handles in FIFO order
    queue,                \* Queue._queue
    putters,              \* Queue._putters: items of the blocked put() calls
    cons,                 \* state of the consumer (the async generator)
    delivered,            \* items yielded by handle_query_stream
    \* ---- Session Store (core/session_manager.py, SessionManager)
    max_sessions,         \* SessionManager.max_sessions
    ttl_hours,            \* SessionManager.ttl_hours
    cache,                \* SessionManager._cache, least recently used first
    disk,                 \* the session directories under base_dir
    now,                  \* datetime.now(), in hours
    store_op,             \* the last store call: number, name, id, outcome
    last_access,          \* ids in the order of their last reference by a call
    switching             \* the calls of POST /session/switch and their locals

confVars   == <<STREAM_COMPAT_DUP_CONTENT, REVEAL_FROM_ENABLED, ENABLE_QUERY_REPAIR,
                REVEAL_FALLBACK, repair_env>>
readyVars  == <<index, retriever, lazyload_attempted, candidates, lazy_passes>>
semVars    == <<sem_value, sem_waiters>>
reqVars    == <<req, pc, raised, status, frames, work>>
genVars    == <<chunks, failAt>>
prodVars   == <<ppc, gi, sent_content, produced>>
loopVars   == <<ready, queue, putters, cons, delivered>>
bridgeVars == <<genVars, prodVars, loopVars>>
storeVars  == <<max_sessions, ttl_hours, cache, disk, now, store_op, last_access,
                switching>>
vars       == <<confVars, readyVars, semVars, reqVars, bridgeVars, storeVars, unit>>

(***************************************************************************)
(* Text helpers (Python str operations used by the source).                *)
(***************************************************************************)
\* s[i:i+len(t)] == t
MatchAt(s, t, i) ==
    /\ i >= 1
    /\ i + Len(t) - 1 <= Len(s)
    /\ \A k \in 1..Len(t) : s[i + k - 1] = t[k]

\* t in s
Contains(s, t) == \E i \in 1..Len(s) : MatchAt(s, t, i)

\* s.find(t) as a 1-based position, 0 when absent
FindFirst(s, t) ==
    IF Contains(s, t)
    THEN CHOOSE i \in 1..Len(s) :
            /\ MatchAt(s, t, i)
            /\ \A j \in 1..(i - 1) : ~MatchAt(s, t, j)
    ELSE 0

\* s.split(t, 1)[1]
AfterFirst(s, t) == SubSeq(s, FindFirst(s, t) + Len(t), Len(s))

\* s.rfind(t) as a 1-based position, 0 when absent
FindLast(s, t) ==
    IF Contains(s, t)
    THEN CHOOSE i \in 1..Len(s) :
            /\ MatchAt(s, t, i)
            /\ \A j \in (i + 1)..Len(s) : ~MatchAt(s, t, j)
    ELSE 0

\* s.split(t)[-1], for a token that cannot overlap itself
AfterLast(s, t) == SubSeq(s, FindLast(s, t) + Len(t), Len(s))

\* C.REVEAL_FROM_TOKEN ("<<<FINAL>>>" by default; a two-character token
\* here, so that the token can still be split across two chunks)
REVEAL_FROM_TOKEN == <<"<", ">">>

(***************************************************************************)
(* RevealFromBuffer (services/generation.py).  State [buffer, revealed].   *)
(***************************************************************************)
RevealInit == [buffer |-> <<>>, revealed |-> FALSE]

\* an add that looks for the token in the chunk alone
RevealAddChunkOnly(st, chunk) ==
    IF st.revealed
    THEN [out |-> chunk, st |-> st]
    ELSE IF Contains(chunk, REVEAL_FROM_TOKEN)
         THEN [out |-> AfterFirst(chunk, REVEAL_FROM_TOKEN),
               st  |-> [buffer |-> <<>>, revealed |-> TRUE]]
         ELSE [out |-> <<>>,
               st  |-> [buffer |-> st.buffer \o chunk, revealed |-> FALSE]]

\* RevealFromBuffer.add: the text returned and the new state
RevealAdd(st, chunk) ==
    IF st.revealed
    THEN [out |-> chunk, st |-> st]
    ELSE LET buf == st.buffer \o chunk IN
         IF Contains(buf, REVEAL_FROM_TOKEN)
         THEN [out |-> AfterFirst(buf, REVEAL_FROM_TOKEN),
               st  |-> [buffer |-> <<>>, revealed |-> TRUE]]
         ELSE [out |-> <<>>,
               st  |-> [buffer |-> buf, revealed |-> FALSE]]

(***************************************************************************)
(* Event Normalizer (core/runtime.py, _norm_event).                        *)
(***************************************************************************)
\* str.lower() on the labels the model uses
Lower(e) ==
    CASE e = "DELTA"     -> "delta"
      [] e = "Reasoning" -> "reasoning"
      [] e = "TTFT"      -> "ttft"
      [] e = "Done"      -> "done"
      [] e = NoneVal     -> ""
      [] OTHER           -> e

_norm_event(ev) ==
    LET e == Lower(ev) IN
    IF e \in {"delta", "text", "token", "message"} THEN "content"
    ELSE IF e \in {"thought", "chain_of_thought", "cot", "reasoning"} THEN "reasoning"
    ELSE IF e \in {"first_token", "ttft"} THEN "ttft"
    ELSE IF e \in {"end", "complete", "completion", "done"} THEN "done"
    ELSE IF e = "" THEN "content"
    ELSE e

(***************************************************************************)
(* sglang_stream (services/generation.py): the events the generator        *)
(* yields for the chunks of the model server.  A chunk is                  *)
(* [rcontent, content]; an empty text stands for None or "".               *)
(***************************************************************************)
Event(e, d) == [ev |-> e, data |-> d]

TtftData  == <<"t">>
GenDone   == Event("done", <<"timing", "answer", "reasoning">>)

\* generator state carried across chunks
GenInit == [rb |-> RevealInit, first_content |-> FALSE]

\* body of `for chunk in stream`, one chunk
SglangChunk(g, chunk, reveal) ==
    LET revs == IF chunk.rcontent # <<>>
                THEN <<Event("reasoning", chunk.rcontent)>> ELSE <<>>
        ra   == IF reveal THEN RevealAdd(g.rb, chunk.content)
                ELSE [out |-> chunk.content, st |-> g.rb]
    IN  IF chunk.content = <<>>
        THEN [events |-> revs, g |-> g]
        ELSE IF ra.out = <<>>
        THEN [events |-> revs, g |-> [g EXCEPT !.rb = ra.st]]
        ELSE [events |-> revs
                         \o (IF g.first_content THEN <<>>
                             ELSE <<Event("ttft", TtftData)>>)
                         \o <<Event("content", ra.out)>>,
              g |-> [rb |-> ra.st, first_content |-> TRUE]]

RECURSIVE SglangYield(_, _, _)
SglangYield(g, cs, reveal) ==
    IF cs = <<>> THEN <<>>
    ELSE LET r == SglangChunk(g, Head(cs), reveal)
         IN  r.events \o SglangYield(r.g, Tail(cs), reveal)

NoFail == MaxChunks + 1

\* the events yielded before the generator ends or raises
sglang_stream(cs, fail, reveal) ==
    IF fail = NoFail
    THEN SglangYield(GenInit, cs, reveal) \o <<GenDone>>
    ELSE SglangYield(GenInit, SubSeq(cs, 1, fail), reveal)

\* the events the generator yields for the chunks the model server sends
GenEvents == sglang_stream(chunks, failAt, REVEAL_FROM_ENABLED)


(***************************************************************************)
(* Context assembly (services/generation.py, build_context).  A node is    *)
(* [file, len]: its source identifier and the length of its text.          *)
(***************************************************************************)
Node(f, n) == [file |-> f, len |-> n]

NodeSet == {Node(f, n) : f \in {"f1", "f2"}, n \in 1..(CTX_CHARS_PER_NODE + 1)}

Min(a, b) == IF a < b THEN a ELSE b

\* the state of the loop: blocks, files, contexts, total
ContextInit == [blocks |-> <<>>, files |-> <<>>, contexts |-> <<>>, total |-> 0]

\* `for i, sn in enumerate(nodes_with_scores, start=1)` from item i on; a
\* block is [i, file, chars]: the item number, the identifier and the
\* number of characters of the text that it shows
RECURSIVE BuildLoop(_, _, _)
BuildLoop(nodes, i, c) ==
    IF i > Len(nodes) THEN c
    ELSE LET sn    == nodes[i]
             files == Append(c.files, sn.file)
             chunk == Min(sn.len, CTX_CHARS_PER_NODE)
         IN  IF c.total + chunk > CTX_MAX_TOTAL_CHARS
             THEN [c EXCEPT !.files = files]
             ELSE BuildLoop(nodes, i + 1,
                            [blocks   |-> Append(c.blocks,
                                                 [i |-> i, file |-> sn.file,
                                                  chars |-> chunk]),
                             files    |-> files,
                             contexts |-> Append(c.contexts, sn),
                             total    |-> c.total + chunk])

build_context(nodes) == BuildLoop(nodes, 1, ContextInit)

(***************************************************************************)
(* Readiness (core/runtime.py): has_index, set_index, the lazy load.       *)
(***************************************************************************)
has_index == index # NoneVal /\ retriever # NoneVal

\* the index persisted in candidate directory k.  A candidate is "nodir"
\* (not a directory), "loadfail" (its files fail to load), "bindfail" (no
\* retriever can be built for its index) or "ok"
DirIndex(k) == IF k = 1 THEN "dir1" ELSE "dir2"

\* Runtime.set_index: the fields after binding index i; building the
\* retriever (with its as_retriever fallback) succeeds or raises
set_index(i, builds) ==
    [index     |-> i,
     retriever |-> IF builds THEN i ELSE NoneVal,
     raises    |-> ~builds]

\* `for d in candidates` of _try_lazy_load_index, from candidate k on
RECURSIVE LazyLoop(_, _, _)
LazyLoop(k, idx, ret) ==
    IF k > Len(candidates) THEN [index |-> idx, retriever |-> ret]
    ELSE CASE candidates[k] = "nodir"    -> LazyLoop(k + 1, idx, ret)
           [] candidates[k] = "loadfail" -> LazyLoop(k + 1, idx, ret)
           [] candidates[k] = "bindfail" ->
                LET b == set_index(DirIndex(k), FALSE)
                IN  LazyLoop(k + 1, b.index, b.retriever)
           [] OTHER ->
                LET b == set_index(DirIndex(k), TRUE)
                IN  [index |-> b.index, retriever |-> b.retriever]

\* a variant that forgets the at-most-once flag
TryLazyLoadRetrying ==
    IF index # NoneVal /\ retriever # NoneVal
    THEN [index |-> index, retriever |-> retriever,
          attempted |-> lazyload_attempted, ran |-> FALSE, raises |-> FALSE]
    ELSE LET l == LazyLoop(1, index, retriever)
         IN  [index |-> l.index, retriever |-> l.retriever,
              attempted |-> TRUE, ran |-> TRUE,
              raises |-> (l.index = NoneVal \/ l.retriever = NoneVal)]

\* Runtime._try_lazy_load_index on the current state: the fields after the
\* call, whether the pass over the candidates ran, whether the call raises
TryLazyLoad ==
    IF index # NoneVal /\ retriever # NoneVal
    THEN [index |-> index, retriever |-> retriever,
          attempted |-> lazyload_attempted, ran |-> FALSE, raises |-> FALSE]
    ELSE IF lazyload_attempted
    THEN [index |-> index, retriever |-> retriever,
          attempted |-> TRUE, ran |-> FALSE, raises |-> FALSE]
    ELSE LET l == LazyLoop(1, index, retriever)
         IN  [index |-> l.index, retriever |-> l.retriever,
              attempted |-> TRUE, ran |-> TRUE,
              raises |-> (l.index = NoneVal \/ l.retriever = NoneVal)]

\* Runtime._ensure_ready: the fields after the call and whether it raises
\* (both RuntimeError("Lazy-load failed ...") and RuntimeError("Index not
\* loaded ...") are the not-ready condition)
EnsureReady ==
    LET t == IF index = NoneVal \/ retriever = NoneVal
             THEN TryLazyLoad
             ELSE [index |-> index, retriever |-> retriever,
                   attempted |-> lazyload_attempted, ran |-> FALSE,
                   raises |-> FALSE]
    IN  [t EXCEPT !.raises = t.raises \/ t.index = NoneVal \/ t.retriever = NoneVal]

\* the assignments _ensure_ready makes, for request r
ApplyEnsureReady(r, e) ==
    /\ index' = e.index
    /\ retriever' = e.retriever
    /\ lazyload_attempted' = e.attempted
    /\ lazy_passes' = IF e.ran THEN lazy_passes + 1 ELSE lazy_passes
    /\ UNCHANGED candidates

\* POST /document (routers/document.py): set_index with a freshly built index
UpsertDocument ==
    \E builds \in BOOLEAN :
        LET b == set_index("doc", builds) IN
        /\ \A r \in Req : pc[r] # "generating"
        /\ index' = b.index
        /\ retriever' = b.retriever
        /\ UNCHANGED <<lazyload_attempted, candidates, lazy_passes>>
        /\ UNCHANGED <<unit, confVars, storeVars, semVars, reqVars, bridgeVars>>


(***************************************************************************)
(* Session Store (core/session_manager.py).  The OrderedDict _cache is a   *)
(* sequence of entries, least recently used first.  An entry is            *)
(* [id, summary_all, summary_recent5, updated_at, index]; updated_at is    *)
(* <<>> for None and <<t>> for a time in hours.  disk[id] is what the      *)
(* session's directory holds, a record whose kind is "nodir" (no           *)
(* directory), "empty" (a directory without session_meta.json), "corrupt"  *)
(* (a metadata file that is not valid JSON) or "meta" (the metadata        *)
(* summary_all, summary_recent5, updated_at).                              *)
(***************************************************************************)
SessionIds == 1..NumSessions

\* outcome of the file-system calls of one operation: all succeed, or the
\* first open() fails, or the first write fails part-way
IOs == {"ok", "open", "write"}

Dir(k, sa, sr, upd) ==
    [kind |-> k, summary_all |-> sa, summary_recent5 |-> sr, updated_at |-> upd]

NoDir      == Dir("nodir", "", "", <<>>)
EmptyDir   == Dir("empty", "", "", <<>>)
CorruptDir == Dir("corrupt", "", "", <<>>)

\* the calls of POST /session/switch that may be in flight together
SwitchCalls == {1, 2}

\* a call that has not arrived: the locals of switch_session
NoSwitch ==
    [pc |-> "idle", id |-> 0, messages |-> <<>>, summary_all |-> "",
     summary_recent5 |-> "", index |-> NoneVal, bm25_nodes |-> <<>>,
     status |-> "none"]

\* SessionCache.__init__
NewEntry(id) ==
    [id |-> id, summary_all |-> "", summary_recent5 |-> "",
     updated_at |-> <<>>, index |-> NoneVal, bm25_nodes |-> <<>>]

CacheIds(c) == {c[i].id : i \in DOMAIN c}

\* `session_id in self._cache` / self._cache[session_id]
EntryOf(c, id) == c[CHOOSE i \in DOMAIN c : c[i].id = id]

\* self._cache.pop(id)
Drop(c, id) == SelectSeq(c, LAMBDA e : e.id # id)

\* self._cache[id] = e; self._cache.move_to_end(id)
PutLast(c, e) == Append(Drop(c, e.id), e)

\* SessionCache.save_meta of entry e whose directory holds d, at time t:
\* the entry and the directory afterwards, and whether the call raises
save_meta(e, d, io, t) ==
    CASE io = "open"  -> [entry |-> e,
                          dir |-> IF d = NoDir THEN EmptyDir ELSE d,
                          raises |-> TRUE]
      [] io = "write" -> [entry |-> e, dir |-> CorruptDir, raises |-> TRUE]
      [] OTHER        -> [entry |-> [e EXCEPT !.updated_at = <<t>>],
                          dir |-> Dir("meta", e.summary_all,
                                      e.summary_recent5, <<t>>),
                          raises |-> FALSE]

\* SessionCache.load_meta of a new entry e from a directory holding d
load_meta(e, d, io) ==
    IF d.kind = "empty" THEN [entry |-> e, raises |-> FALSE]
    ELSE IF d.kind = "corrupt" \/ io = "open" THEN [entry |-> e, raises |-> TRUE]
    ELSE [entry |-> [e EXCEPT !.summary_all = d.summary_all,
                              !.summary_recent5 = d.summary_recent5,
                              !.updated_at = d.updated_at],
          raises |-> FALSE]

\* an eviction that pops the most recently used entry instead
RECURSIVE EvictNewest(_, _, _)
EvictNewest(c, dk, ev) ==
    IF Len(c) > max_sessions
    THEN EvictNewest(SubSeq(c, 1, Len(c) - 1),
                     [dk EXCEPT ![c[Len(c)].id] = NoDir],
                     ev \cup {c[Len(c)].id})
    ELSE [cache |-> c, disk |-> dk, evicted |-> ev]

\* an eviction that pops the entry and leaves its directory
RECURSIVE EvictKeepDir(_, _, _)
EvictKeepDir(c, dk, ev) ==
    IF Len(c) > max_sessions
    THEN EvictKeepDir(Tail(c), dk, ev \cup {Head(c).id})
    ELSE [cache |-> c, disk |-> dk, evicted |-> ev]

\* SessionManager._evict_lru: pops the first entry while the count exceeds
\* max_sessions and removes its directory
RECURSIVE _evict_lru(_, _, _)
_evict_lru(c, dk, ev) ==
    IF Len(c) > max_sessions
    THEN _evict_lru(Tail(c), [dk EXCEPT ![Head(c).id] = NoDir],
                    ev \cup {Head(c).id})
    ELSE [cache |-> c, disk |-> dk, evicted |-> ev]

\* `cache.updated_at and (now - cache.updated_at) > timedelta(hours=ttl)`
Expired(e, t) == e.updated_at # <<>> /\ t - e.updated_at[1] > ttl_hours

\* SessionManager._evict_expired at time t
_evict_expired(c, dk, t) ==
    IF ttl_hours <= 0 THEN [cache |-> c, disk |-> dk]
    ELSE LET gone == {c[i].id : i \in {j \in DOMAIN c : Expired(c[j], t)}}
         IN  [cache |-> SelectSeq(c, LAMBDA e : e.id \notin gone),
              disk  |-> [s \in SessionIds |->
                            IF s \in gone THEN NoDir ELSE dk[s]]]

\* the result of a store call: the store afterwards, whether it raised,
\* whether the id was referenced in the store, the ids evicted by capacity
StoreResult(c, dk, r, a, ev) ==
    [cache |-> c, disk |-> dk, raises |-> r, accessed |-> a, evicted |-> ev]

\* SessionManager.init_session(id) on store (c, dk)
init_session(c, dk, id, io) ==
    LET d0 == IF dk[id] = NoDir THEN EmptyDir ELSE dk[id]
        s  == save_meta(NewEntry(id), d0, io, now)
        d1 == [dk EXCEPT ![id] = s.dir]
    IN  IF s.raises THEN StoreResult(c, d1, TRUE, FALSE, {})
        ELSE LET ev == _evict_lru(PutLast(c, s.entry), d1, {})
             IN  StoreResult(ev.cache, ev.disk, FALSE, TRUE, ev.evicted)

\* SessionManager.get_or_create(id) on store (c, dk)
get_or_create(c, dk, id, io) ==
    IF id \in CacheIds(c)
    THEN StoreResult(PutLast(c, EntryOf(c, id)), dk, FALSE, TRUE, {})
    ELSE IF dk[id] # NoDir
    THEN LET l == load_meta(NewEntry(id), dk[id], io)
         IN  IF l.raises THEN StoreResult(c, dk, TRUE, FALSE, {})
             ELSE StoreResult(PutLast(c, l.entry), dk, FALSE, TRUE, {})
    ELSE init_session(c, dk, id, io)

\* SessionManager.update_session(id, summary_all, summary_recent5, index,
\* bm25_nodes) on store (c, dk): `if index:` and `if bm25_nodes:` keep the
\* entry's value when the argument is None or empty
update_session(c, dk, id, sa, sr, ix, bm, io) ==
    LET g == get_or_create(c, dk, id, io) IN
    IF g.raises THEN g
    ELSE LET e0 == EntryOf(g.cache, id)
             e1 == [e0 EXCEPT !.summary_all = sa,
                              !.summary_recent5 = sr,
                              !.index = IF ix # NoneVal THEN ix ELSE @,
                              !.bm25_nodes = IF bm # <<>> THEN bm ELSE @]
             s  == save_meta(e1, g.disk[id], io, now)
             d1 == [g.disk EXCEPT ![id] = s.dir]
         IN  IF s.raises
             THEN StoreResult(PutLast(g.cache, e1), d1, TRUE, TRUE, g.evicted)
             ELSE LET x == _evict_expired(PutLast(g.cache, s.entry), d1, now)
                  IN  StoreResult(x.cache, x.disk, FALSE, TRUE, g.evicted)

\* the assignments of one store call with result res: last_access lists
\* the ids referenced so far, the most recently referenced last;
\* store_op.gone holds the ids that left the store (capacity or TTL) and
\* that no call has named since
StoreAssign(op, id, res) ==
    /\ cache' = res.cache
    /\ disk' = res.disk
    /\ store_op' = [n |-> store_op.n + 1, op |-> op, id |-> id,
                    raised |-> res.raises, evicted |-> res.evicted,
                    gone |-> (store_op.gone \ {id})
                                \cup (CacheIds(cache) \ CacheIds(res.cache))]
    /\ last_access' = IF res.accessed
                      THEN Append(SelectSeq(last_access, LAMBDA x : x # id), id)
                      ELSE last_access
    /\ UNCHANGED <<now, max_sessions, ttl_hours>>

\* a store call made outside POST /session/switch
ApplyStore(op, id, res) ==
    /\ StoreAssign(op, id, res)
    /\ UNCHANGED switching


(***************************************************************************)
(* Query Repair (services/query_repair.py).  A text is the sequence of its *)
(* lines, <<>> being the empty string; a line is a section header, an      *)
(* item, a plain line or a blank line.                                     *)
(***************************************************************************)
HdrCorr == "corrections:"     \* the header of the corrections section
HdrQues == "questions:"       \* the header of the clarifying questions
HdrIq   == "improved:"        \* the header of the rewritten query
HdrAss  == "assumptions:"     \* the header of the assumptions section
Blank   == " "

\* line.strip().startswith('-') and line.strip()[1:].strip()
IsBullet(l) == l \in {"- c", "- a"}
BulletText(l) == IF l = "- c" THEN "c" ELSE "a"

\* re.match(r'^\d+\)', line.strip()) and re.sub(r'^\d+\)\s*', '', ...)
IsNumbered(l) == l = "1) k"
NumberedText(l) == "k"

\* str.strip() of a text: the blank lines at both ends go
RECURSIVE StripLeft(_)
StripLeft(t) == IF t # <<>> /\ Head(t) = Blank THEN StripLeft(Tail(t)) ELSE t

RECURSIVE StripRight(_)
StripRight(t) ==
    IF t # <<>> /\ t[Len(t)] = Blank
    THEN StripRight(SubSeq(t, 1, Len(t) - 1))
    ELSE t

Strip(t) == StripRight(StripLeft(t))

(***************************************************************************)
(* The non-streaming answer (services/generation.py,                       *)
(* _apply_reveal_from_filter, and core/runtime.py, handle_query).          *)
(***************************************************************************)
\* "</think>", as one character
ThinkClose == <<"/">>

_apply_reveal_from_filter(text, token, fallback) ==
    IF ~REVEAL_FROM_ENABLED THEN text
    ELSE IF Contains(text, token) THEN Strip(AfterLast(text, token))
    ELSE IF fallback = "empty" THEN <<>>
    ELSE IF fallback = "after_think_tag"
         THEN IF Contains(text, ThinkClose)
              THEN Strip(AfterFirst(text, ThinkClose))
              ELSE text
    ELSE text

\* "".join(answer_parts): the data of the content events, in order
RECURSIVE JoinContent(_)
JoinContent(events) ==
    IF events = <<>> THEN <<>>
    ELSE (IF _norm_event(Head(events).ev) = "content"
          THEN Head(events).data ELSE <<>>) \o JoinContent(Tail(events))

\* enable_thinking = (req.think_mode or "off").lower() == "on"
EnableThinking(b) == b.think_mode = "on"

\* handle_query: `answer` after the generation loop over events
QueryAnswer(events, thinking) ==
    LET answer == Strip(JoinContent(events)) IN
    IF REVEAL_FROM_ENABLED /\ ~thinking
    THEN _apply_reveal_from_filter(answer, REVEAL_FROM_TOKEN, REVEAL_FALLBACK)
    ELSE answer

\* re.search(hdr + r'(.*?)(?=' + stops + r'|$)', text, re.DOTALL): group 1
\* runs from the first hdr to the next stop header or the end of the text
Section(t, hdr, stops) ==
    LET heads == {i \in DOMAIN t : t[i] = hdr} IN
    IF heads = {} THEN [found |-> FALSE, body |-> <<>>]
    ELSE LET i    == CHOOSE i \in heads : \A k \in heads : i <= k
             ends == {j \in DOMAIN t : j > i /\ t[j] \in stops}
             j    == IF ends = {} THEN Len(t) + 1
                     ELSE CHOOSE j \in ends : \A k \in ends : j <= k
         IN  [found |-> TRUE, body |-> SubSeq(t, i + 1, j - 1)]

\* the lines of body that Is accepts, each through Txt
Items(body, Is(_), Txt(_)) ==
    LET s == SelectSeq(body, Is) IN [i \in 1..Len(s) |-> Txt(s[i])]

\* core/models.py, RepairContext
RepairContext(corr, ques, iq, ass) ==
    [corrections |-> corr, questions |-> ques, improved_query |-> iq,
     assumptions |-> ass]

\* RepairContext(improved_query=user_query)
IdentityResult(user_query) == RepairContext(<<>>, <<>>, user_query, <<>>)

\* _parse_repair_output(text).  The assumptions pattern ends in a lazy group
\* with nothing after it, so its group 1 is always the empty string.
_parse_repair_output(text) ==
    LET corr == Section(text, HdrCorr, {HdrQues, HdrIq, HdrAss})
        ques == Section(text, HdrQues, {HdrIq, HdrAss})
        iq   == Section(text, HdrIq, {HdrAss})
    IN  RepairContext(Items(Strip(corr.body), IsBullet, BulletText),
                      Items(Strip(ques.body), IsNumbered, NumberedText),
                      Strip(iq.body),
                      Items(<<>>, IsBullet, BulletText))

\* what client.chat.completions.create does: it raises, or answers with a
\* message whose content is None ("none") or a text
Reply(k, t) == [kind |-> k, text |-> t]

\* a repair_query whose failures reach the caller
repair_queryUnprotected(user_query, reply) ==
    IF ~ENABLE_QUERY_REPAIR
    THEN [ctx |-> IdentityResult(user_query), generator |-> FALSE, raises |-> FALSE]
    ELSE IF reply.kind = "raise"
    THEN [ctx |-> IdentityResult(user_query), generator |-> TRUE, raises |-> TRUE]
    ELSE [ctx |-> _parse_repair_output(Strip(reply.text)),
          generator |-> TRUE, raises |-> FALSE]

\* a repair_query that does not look at the configuration
repair_queryAlways(user_query, reply) ==
    IF reply.kind = "raise" \/ reply.kind = "none" \/ reply.text = <<>>
    THEN [ctx |-> IdentityResult(user_query), generator |-> TRUE, raises |-> FALSE]
    ELSE [ctx |-> _parse_repair_output(Strip(reply.text)),
          generator |-> TRUE, raises |-> FALSE]

\* repair_query(user_query, ...) when the model server behaves as reply:
\* the RepairContext returned, whether the Generator was called, and whether
\* an exception leaves the function
repair_query(user_query, reply) ==
    IF ~ENABLE_QUERY_REPAIR
    THEN [ctx |-> IdentityResult(user_query), generator |-> FALSE, raises |-> FALSE]
    ELSE IF reply.kind = "raise"
    THEN [ctx |-> IdentityResult(user_query), generator |-> TRUE, raises |-> FALSE]
    ELSE IF reply.kind = "none" \/ reply.text = <<>>
    THEN [ctx |-> IdentityResult(user_query), generator |-> TRUE, raises |-> FALSE]
    ELSE [ctx |-> _parse_repair_output(Strip(reply.text)),
          generator |-> TRUE, raises |-> FALSE]


(***************************************************************************)
(* Requests.  A request body is [stream, session, eval_mode, query];       *)
(* session is <<>> for None and <<id>> for an integer id.                  *)
(*                                                                         *)
(* pc of a request's task:                                                 *)
(*   start     not yet run                                                 *)
(*   sem       suspended in Semaphore.acquire, future pending              *)
(*   woken     the acquire future is resolved, the task has not resumed    *)
(*   admitted  holds a slot, about to run _ensure_ready                    *)
(*   session   awaiting _retrieve_from_session                             *)
(*   repair    awaiting the repair_query thread                            *)
(*   retrieve  awaiting the retriever thread                               *)
(*   producing streaming: the producer thread is about to be started       *)
(*   streaming streaming: the bridge is running                            *)
(*   done      the handler has returned or raised                          *)
(***************************************************************************)
\* the locals of handle_query / handle_query_stream for a request whose
\* query is q, and what the handler passed on: <<>> stands for None or
\* "not yet", <<x>> for the value x
\*   repair_context, final_query   the locals of those names
\*   session_lookup                _retrieve_from_session was called
\*   reply                         what the repair prompt was answered with
\*   generator                     repair_query called the model server
\*   retrieve_query                the argument of self._retrieve
\*   prompt_query                  query_str of QA_TMPL.format
\*   response                      the dict handle_query returns
\*   answer                        the "answer" entry of that dict
WorkInit(q) ==
    [repair_context |-> <<>>, final_query |-> q, session_lookup |-> FALSE,
     reply |-> <<>>, generator |-> FALSE, retrieve_query |-> <<>>,
     prompt_query |-> <<>>, response |-> <<>>, answer |-> <<>>]

\* a handler that always retrieves with the query as sent
FinalQueryAsSent(q, ctx) == q

\* `if repair_context.improved_query: final_query = ...`
FinalQuery(q, ctx) ==
    IF ctx.improved_query # <<>> THEN ctx.improved_query ELSE q

\* the repair_query thread has returned ctx for reply
AfterRepair(w, q, reply, rq) ==
    [w EXCEPT !.repair_context = <<rq.ctx>>,
              !.final_query = FinalQuery(q, rq.ctx),
              !.reply = <<reply>>,
              !.generator = rq.generator]

\* self._retrieve(final_query, ...) runs; when it returns, the prompt is
\* built from the query as sent
AfterRetrieve(w, q, returned) ==
    [w EXCEPT !.retrieve_query = <<w.final_query>>,
              !.prompt_query = IF returned THEN <<q>> ELSE <<>>]

\* the repair_context and used_query entries of handle_query's result
Response(w, q) ==
    [repair_context |-> w.repair_context,
     used_query |-> IF w.final_query # q THEN <<w.final_query>> ELSE <<>>]

\* a repair condition that does not look at eval_mode
RepairCondAnyMode(r) ==
    /\ req[r].session # <<>>
    /\ req[r].session # <<0>>
    /\ ENABLE_QUERY_REPAIR

\* routers/query.py, query(): the HTTP status for the way handle_query ended
HttpStatus(exc) ==
    CASE exc = "none"         -> "200"
      [] exc = "NotReady"     -> "409"
      [] exc = "RuntimeError" -> "409"
      [] exc = "Cancelled"    -> "504"
      [] OTHER                -> "500"

\* `req.session_id and not req.eval_mode and C.ENABLE_QUERY_REPAIR`
RepairCond(r) ==
    /\ req[r].session # <<>>
    /\ req[r].session # <<0>>
    /\ ~req[r].eval_mode
    /\ ENABLE_QUERY_REPAIR

(***************************************************************************)
(* asyncio.Semaphore as used by `async with self._sem`.                    *)
(***************************************************************************)
\* Semaphore.locked(): cancelled waiters are removed at once in this model
Locked == sem_value = 0 \/ sem_waiters # <<>>

PendingAt(pcf) == {i \in DOMAIN sem_waiters : pcf[sem_waiters[i]] = "sem"}

\* a wake-up that never hands the slot to a waiter
WakeUpNextNobody(v, pcf) == [value |-> v, pc |-> pcf]

\* Semaphore._wake_up_next with counter v: the first waiter whose future is
\* not done gets the slot
WakeUpNext(v, pcf) ==
    IF PendingAt(pcf) = {} THEN [value |-> v, pc |-> pcf]
    ELSE LET i == CHOOSE i \in PendingAt(pcf) : \A j \in PendingAt(pcf) : i <= j
         IN  [value |-> v - 1, pc |-> [pcf EXCEPT ![sem_waiters[i]] = "woken"]]

\* a release that forgets to give the slot back
SemReleaseLeaking(pcf) == [value |-> sem_value, pc |-> pcf]

\* Semaphore.release(), run by __aexit__ on every exit of the `async with`
SemRelease(pcf) == WakeUpNext(sem_value + 1, pcf)

Without(seq, r) == SelectSeq(seq, LAMBDA x : x # r)

\* handle_query leaves the `async with` block, normally (exc = "none") or
\* by an exception; query() turns that into the HTTP status
LeaveQuery(r, exc) ==
    LET rel == SemRelease([pc EXCEPT ![r] = "done"]) IN
    /\ pc' = rel.pc
    /\ sem_value' = rel.value
    /\ raised' = [raised EXCEPT ![r] = exc]
    /\ status' = [status EXCEPT ![r] = HttpStatus(exc)]
    /\ UNCHANGED <<sem_waiters, req, frames>>

\* the thread of the event loop is free to run a step of a task: it is not
\* inside the generation loop of a non-streaming request, which does not
\* await, nor in the middle of a step of the consumer
LoopIdle ==
    /\ \A r \in Req : pc[r] # "generating"
    /\ cons # "running"

\* an acquire that admits although the semaphore is locked
QueryBeginUnguarded(r) ==
    /\ LoopIdle
    /\ pc[r] = "start"
    /\ ~req[r].stream
    /\ sem_value' = sem_value - 1
    /\ pc' = [pc EXCEPT ![r] = "admitted"]
    /\ UNCHANGED <<sem_waiters, req, work, raised, status, frames>>
    /\ UNCHANGED <<unit, confVars, storeVars, readyVars, bridgeVars>>

\* handle_query is entered: Semaphore.acquire
QueryBegin(r) ==
    /\ LoopIdle
    /\ pc[r] = "start"
    /\ ~req[r].stream
    /\ IF ~Locked
       THEN /\ sem_value' = sem_value - 1
            /\ pc' = [pc EXCEPT ![r] = "admitted"]
            /\ UNCHANGED sem_waiters
       ELSE /\ sem_waiters' = Append(sem_waiters, r)
            /\ pc' = [pc EXCEPT ![r] = "sem"]
            /\ UNCHANGED sem_value
    /\ UNCHANGED <<req, work, raised, status, frames>>
    /\ UNCHANGED <<unit, confVars, storeVars, readyVars, bridgeVars>>

\* the woken task resumes inside acquire: the future leaves _waiters, and
\* `if self._value > 0: self._wake_up_next()`
QueryResume(r) ==
    /\ LoopIdle
    /\ pc[r] = "woken"
    /\ LET pc1 == [pc EXCEPT ![r] = "admitted"]
           w   == IF sem_value > 0 THEN WakeUpNext(sem_value, pc1)
                  ELSE [value |-> sem_value, pc |-> pc1]
       IN  /\ sem_waiters' = Without(sem_waiters, r)
           /\ sem_value' = w.value
           /\ pc' = w.pc
    /\ UNCHANGED <<req, work, raised, status, frames>>
    /\ UNCHANGED <<unit, confVars, storeVars, readyVars, bridgeVars>>

\* handle_query: self._ensure_ready() under the slot
QueryEnsureReady(r) ==
    /\ LoopIdle
    /\ pc[r] = "admitted"
    /\ LET e == EnsureReady IN
       /\ ApplyEnsureReady(r, e)
       /\ IF e.raises
          THEN LET rel == SemRelease([pc EXCEPT ![r] = "done"]) IN
               /\ pc' = rel.pc
               /\ sem_value' = rel.value
               /\ raised' = [raised EXCEPT ![r] = "NotReady"]
               /\ status' = [status EXCEPT ![r] = HttpStatus("NotReady")]
          ELSE /\ pc' = [pc EXCEPT ![r] =
                            IF RepairCond(r) THEN "session" ELSE "retrieve"]
               /\ UNCHANGED <<sem_value, raised, status>>
    /\ UNCHANGED <<sem_waiters, req, work, frames>>
    /\ UNCHANGED <<unit, confVars, storeVars, bridgeVars>>

\* handle_query: session_manager.get_or_create, whose I/O errors leave
\* the handler, and the session snippet lookup, which asks get_or_create
\* again (a hit that changes nothing) and absorbs its retrieval failures
QuerySession(r) ==
    /\ LoopIdle
    /\ pc[r] = "session"
    /\ ~req[r].stream
    /\ \E io \in IOs :
          LET g == get_or_create(cache, disk, req[r].session[1], io) IN
          /\ ApplyStore("get_or_create", req[r].session[1], g)
          /\ IF g.raises
             THEN /\ LeaveQuery(r, "Exception")
                  /\ UNCHANGED work
             ELSE /\ pc' = [pc EXCEPT ![r] = "repair"]
                  /\ work' = [work EXCEPT ![r].session_lookup = TRUE]
                  /\ UNCHANGED <<semVars, req, raised, status, frames>>
    /\ UNCHANGED <<unit, confVars, readyVars, bridgeVars>>

\* handle_query: the repair_query thread returns, and the rewritten query
\* is taken when it is not empty
QueryRepair(r) ==
    /\ LoopIdle
    /\ pc[r] = "repair"
    /\ ~req[r].stream
    /\ \E reply \in repair_env :
          LET rq == repair_query(req[r].query, reply) IN
          IF rq.raises
          THEN /\ LeaveQuery(r, "Exception")
               /\ work' = [work EXCEPT ![r].reply = <<reply>>]
          ELSE /\ pc' = [pc EXCEPT ![r] = "retrieve"]
               /\ work' = [work EXCEPT ![r] =
                               AfterRepair(@, req[r].query, reply, rq)]
               /\ UNCHANGED <<semVars, req, raised, status, frames>>
    /\ UNCHANGED <<unit, confVars, storeVars, readyVars, bridgeVars>>

\* handle_query: the retriever thread returns or raises; when it returns,
\* the context and the prompt are built and the task enters the generation
\* loop, `for event, data in sglang_stream(...)`, without suspending
QueryRetrieve(r) ==
    /\ LoopIdle
    /\ pc[r] = "retrieve"
    /\ ~req[r].stream
    /\ \/ /\ pc' = [pc EXCEPT ![r] = "generating"]
          /\ work' = [work EXCEPT ![r] = AfterRetrieve(@, req[r].query, TRUE)]
          /\ UNCHANGED <<semVars, req, raised, status, frames>>
       \/ \E exc \in {"RuntimeError", "Exception"} :
             /\ LeaveQuery(r, exc)
             /\ work' = [work EXCEPT ![r] = AfterRetrieve(@, req[r].query, FALSE)]
    /\ UNCHANGED <<unit, confVars, storeVars, readyVars, bridgeVars>>

\* handle_query: the generation loop has read the generator to its end, on
\* the thread of the event loop, and the response is returned; or the
\* generation raised
QueryGenerate(r) ==
    /\ pc[r] = "generating"
    /\ \E exc \in {"none", "RuntimeError", "Exception"} :
          /\ exc = "none" => failAt = NoFail
          /\ LeaveQuery(r, exc)
          /\ LET w == work[r] IN
             work' = [work EXCEPT ![r] =
                         IF exc = "none"
                         THEN [w EXCEPT
                                 !.response = <<Response(w, req[r].query)>>,
                                 !.answer = <<QueryAnswer(GenEvents,
                                                          EnableThinking(req[r]))>>]
                         ELSE w]
    /\ UNCHANGED <<unit, confVars, storeVars, readyVars, bridgeVars>>

\* query(): asyncio.wait_for cancels the task at the await it is suspended
\* at (REQUEST_TIMEOUT_SEC elapsed) and answers 504
QueryTimeout(r) ==
    /\ LoopIdle
    /\ ~req[r].stream
    /\ pc[r] \in {"sem", "woken", "session", "repair", "retrieve"}
    /\ LET pc1 == [pc EXCEPT ![r] = "done"] IN
       CASE pc[r] = "sem" ->
                \* the pending future is cancelled: no slot was taken
                /\ sem_waiters' = Without(sem_waiters, r)
                /\ pc' = pc1
                /\ UNCHANGED sem_value
         [] pc[r] = "woken" ->
                \* the future was already resolved: the slot is handed on
                LET w == WakeUpNext(sem_value + 1, pc1) IN
                /\ sem_waiters' = Without(sem_waiters, r)
                /\ sem_value' = w.value
                /\ pc' = w.pc
         [] OTHER ->
                LET rel == SemRelease(pc1) IN
                /\ pc' = rel.pc
                /\ sem_value' = rel.value
                /\ UNCHANGED sem_waiters
    /\ raised' = [raised EXCEPT ![r] = "Cancelled"]
    /\ status' = [status EXCEPT ![r] = HttpStatus("Cancelled")]
    /\ UNCHANGED <<req, work, frames>>
    /\ UNCHANGED <<unit, confVars, storeVars, readyVars, bridgeVars>>


(***************************************************************************)
(* Streaming request before production (routers/query.py, _sse_iter, and   *)
(* core/runtime.py, handle_query_stream up to the queue).                  *)
(***************************************************************************)
Frame(k, e, d) == [kind |-> k, event |-> e, data |-> d]

Warmup == Frame("comment", "warmup", <<>>)

\* _format_message_compat and _format_sse of one event
EventFrames(e, d) == <<Frame("message", e, d), Frame("event", e, d)>>

\* the `except Exception` branch of _sse_iter
ErrorFrames == EventFrames("error", <<"message">>)

\* an exception leaves handle_query_stream: _sse_iter frames it and ends
LeaveStream(r, exc) ==
    /\ pc' = [pc EXCEPT ![r] = "done"]
    /\ raised' = [raised EXCEPT ![r] = exc]
    /\ frames' = [frames EXCEPT ![r] = @ \o ErrorFrames]
    /\ UNCHANGED <<req, status>>

\* a streaming request that takes a slot like a non-streaming one
StreamBeginGated(r) ==
    /\ LoopIdle
    /\ pc[r] = "start"
    /\ req[r].stream
    /\ ~Locked
    /\ sem_value' = sem_value - 1
    /\ LET e == EnsureReady IN
       /\ ApplyEnsureReady(r, e)
       /\ status' = [status EXCEPT ![r] = "200"]
       /\ IF e.raises
          THEN /\ pc' = [pc EXCEPT ![r] = "done"]
               /\ raised' = [raised EXCEPT ![r] = "NotReady"]
               /\ frames' = [frames EXCEPT ![r] = <<Warmup>> \o ErrorFrames]
          ELSE /\ pc' = [pc EXCEPT ![r] =
                            IF RepairCond(r) THEN "session" ELSE "retrieve"]
               /\ frames' = [frames EXCEPT ![r] = <<Warmup>>]
               /\ UNCHANGED raised
    /\ UNCHANGED <<req, work, sem_waiters>>
    /\ UNCHANGED <<unit, confVars, storeVars, bridgeVars>>

\* _sse_iter starts: the warmup comment, then handle_query_stream runs
\* _ensure_ready (no admission semaphore on this path)
StreamBegin(r) ==
    /\ LoopIdle
    /\ pc[r] = "start"
    /\ req[r].stream
    /\ LET e == EnsureReady IN
       /\ ApplyEnsureReady(r, e)
       /\ status' = [status EXCEPT ![r] = "200"]
       /\ IF e.raises
          THEN /\ pc' = [pc EXCEPT ![r] = "done"]
               /\ raised' = [raised EXCEPT ![r] = "NotReady"]
               /\ frames' = [frames EXCEPT ![r] = <<Warmup>> \o ErrorFrames]
          ELSE /\ pc' = [pc EXCEPT ![r] =
                            IF RepairCond(r) THEN "session" ELSE "retrieve"]
               /\ frames' = [frames EXCEPT ![r] = <<Warmup>>]
               /\ UNCHANGED raised
    /\ UNCHANGED <<req, work>>
    /\ UNCHANGED <<unit, confVars, storeVars, semVars, bridgeVars>>

\* handle_query_stream: session_manager.get_or_create and the snippet
\* lookup, as in handle_query
StreamSession(r) ==
    /\ LoopIdle
    /\ pc[r] = "session"
    /\ req[r].stream
    /\ \E io \in IOs :
          LET g == get_or_create(cache, disk, req[r].session[1], io) IN
          /\ ApplyStore("get_or_create", req[r].session[1], g)
          /\ IF g.raises
             THEN /\ LeaveStream(r, "Exception")
                  /\ UNCHANGED work
             ELSE /\ pc' = [pc EXCEPT ![r] = "repair"]
                  /\ work' = [work EXCEPT ![r].session_lookup = TRUE]
                  /\ UNCHANGED <<req, raised, status, frames>>
    /\ UNCHANGED <<unit, confVars, readyVars, semVars, bridgeVars>>

\* handle_query_stream: the repair_query thread returns
StreamRepair(r) ==
    /\ LoopIdle
    /\ pc[r] = "repair"
    /\ req[r].stream
    /\ \E reply \in repair_env :
          LET rq == repair_query(req[r].query, reply) IN
          IF rq.raises
          THEN /\ LeaveStream(r, "Exception")
               /\ work' = [work EXCEPT ![r].reply = <<reply>>]
          ELSE /\ pc' = [pc EXCEPT ![r] = "retrieve"]
               /\ work' = [work EXCEPT ![r] =
                               AfterRepair(@, req[r].query, reply, rq)]
               /\ UNCHANGED <<req, raised, status, frames>>
    /\ UNCHANGED <<unit, confVars, storeVars, readyVars, semVars, bridgeVars>>

\* handle_query_stream: the retriever thread returns, and the prompt is
\* built, or it raises
StreamRetrieve(r) ==
    /\ LoopIdle
    /\ pc[r] = "retrieve"
    /\ req[r].stream
    /\ \/ /\ pc' = [pc EXCEPT ![r] = "producing"]
          /\ work' = [work EXCEPT ![r] = AfterRetrieve(@, req[r].query, TRUE)]
          /\ UNCHANGED <<req, raised, status, frames>>
       \/ \E exc \in {"RuntimeError", "Exception"} :
             /\ LeaveStream(r, exc)
             /\ work' = [work EXCEPT ![r] = AfterRetrieve(@, req[r].query, FALSE)]
    /\ UNCHANGED <<unit, confVars, storeVars, readyVars, semVars, bridgeVars>>

(***************************************************************************)
(* Stream bridge (core/runtime.py, handle_query_stream): the producer      *)
(* thread, the event loop with the asyncio.Queue, the consumer.            *)
(***************************************************************************)
CloseMarker == Event(NoneVal, <<>>)
ErrorEvent  == Event("error", <<"message">>)
FinalDone   == Event("done", <<"timing">>)

Handle(h, it) == [h |-> h, item |-> it]
ConsHandle == Handle("cons", CloseMarker)

\* the request whose bridge is running
Streaming(r) == pc[r] = "streaming"

\* handle_query_stream: the queue is created, the producer is handed to the
\* executor, and the consumer suspends in its first queue.get()
StartProduction(r) ==
    /\ LoopIdle
    /\ pc[r] = "producing"
    /\ ppc = "idle"
    /\ pc' = [pc EXCEPT ![r] = "streaming"]
    /\ ppc' = "loop"
    /\ cons' = "getting"
    /\ UNCHANGED <<req, work, raised, status, frames>>
    /\ UNCHANGED <<gi, sent_content, produced, ready, queue, putters, delivered>>
    /\ UNCHANGED <<unit, confVars, storeVars, readyVars, semVars, genVars>>

\* a put the producer thread waits for: it goes on only when the queue has
\* room for the item
PutWaiting(it) ==
    /\ Len(queue) < QueueMaxSize
    /\ ready' = Append(ready, Handle("cb", it))
    /\ produced' = Append(produced, it)

\* asyncio.run_coroutine_threadsafe(queue.put(it), _loop), called on the
\* producer thread: a callback is appended to the loop's ready handles and
\* the caller does not wait for it
Put(it) ==
    /\ ready' = Append(ready, Handle("cb", it))
    /\ produced' = Append(produced, it)

\* _producer: one iteration of `for raw_event, data in sglang_stream(...)`
\* up to its first queue.put
ProducerNext ==
    /\ ppc = "loop"
    /\ gi < Len(GenEvents)
    /\ LET raw == GenEvents[gi + 1]
           ev  == _norm_event(raw.ev)
       IN  IF ev = "reasoning" /\ STREAM_COMPAT_DUP_CONTENT
           THEN /\ Put(Event("content", raw.data))
                /\ sent_content' = TRUE
                /\ ppc' = "emit"
                /\ UNCHANGED gi
           ELSE /\ Put(Event(ev, raw.data))
                /\ sent_content' = (sent_content \/ ev = "content")
                /\ gi' = gi + 1
                /\ UNCHANGED ppc
    /\ UNCHANGED <<queue, putters, cons, delivered>>
    /\ UNCHANGED <<unit, confVars, storeVars, readyVars, semVars, reqVars, genVars>>

\* _producer: the queue.put of the event itself after its duplicate
ProducerEmit ==
    /\ ppc = "emit"
    /\ LET raw == GenEvents[gi + 1]
       IN  Put(Event(_norm_event(raw.ev), raw.data))
    /\ gi' = gi + 1
    /\ ppc' = "loop"
    /\ UNCHANGED <<sent_content, queue, putters, cons, delivered>>
    /\ UNCHANGED <<unit, confVars, storeVars, readyVars, semVars, reqVars, genVars>>

\* _producer: the generator is exhausted; the compatibility content event
ProducerAfterLoop ==
    /\ ppc = "loop"
    /\ gi = Len(GenEvents)
    /\ failAt = NoFail
    /\ IF ~sent_content /\ STREAM_COMPAT_DUP_CONTENT
       THEN Put(Event("content", <<>>))
       ELSE UNCHANGED <<ready, produced>>
    /\ ppc' = "finally"
    /\ UNCHANGED <<gi, sent_content, queue, putters, cons, delivered>>
    /\ UNCHANGED <<unit, confVars, storeVars, readyVars, semVars, reqVars, genVars>>

\* _producer: the generation call raised; `except Exception`
ProducerExcept ==
    /\ ppc = "loop"
    /\ gi = Len(GenEvents)
    /\ failAt # NoFail
    /\ Put(ErrorEvent)
    /\ ppc' = "finally"
    /\ UNCHANGED <<gi, sent_content, queue, putters, cons, delivered>>
    /\ UNCHANGED <<unit, confVars, storeVars, readyVars, semVars, reqVars, genVars>>

\* _producer: `finally`, the done event
ProducerDone ==
    /\ ppc = "finally"
    /\ Put(FinalDone)
    /\ ppc' = "close"
    /\ UNCHANGED <<gi, sent_content, queue, putters, cons, delivered>>
    /\ UNCHANGED <<unit, confVars, storeVars, readyVars, semVars, reqVars, genVars>>

\* _producer: `finally`, the close marker (None)
ProducerClose ==
    /\ ppc = "close"
    /\ Put(CloseMarker)
    /\ ppc' = "finished"
    /\ UNCHANGED <<gi, sent_content, queue, putters, cons, delivered>>
    /\ UNCHANGED <<unit, confVars, storeVars, readyVars, semVars, reqVars, genVars>>

\* the loop thread is free to run the next ready handle
LoopFree == LoopIdle /\ ready # <<>>

\* the loop runs the callback of run_coroutine_threadsafe: the put
\* coroutine becomes a task, whose first step is appended to the handles
LoopCallback ==
    /\ LoopFree
    /\ Head(ready).h = "cb"
    /\ ready' = Append(Tail(ready), Handle("put", Head(ready).item))
    /\ UNCHANGED <<queue, putters, cons, delivered>>
    /\ UNCHANGED <<unit, confVars, storeVars, readyVars, semVars, reqVars, genVars, prodVars>>

\* Queue.full()
Full == Len(queue) >= QueueMaxSize

\* the loop runs a step of a put task (its first step, or its wakeup after
\* `await putter`): `while self.full()` waits again at the end of _putters,
\* otherwise put_nowait, which wakes the consumer waiting in get()
LoopPut ==
    /\ LoopFree
    /\ Head(ready).h = "put"
    /\ IF Full
       THEN /\ putters' = Append(putters, Head(ready).item)
            /\ ready' = Tail(ready)
            /\ UNCHANGED <<queue, cons>>
       ELSE /\ queue' = Append(queue, Head(ready).item)
            /\ IF cons = "getting"
               THEN /\ cons' = "scheduled"
                    /\ ready' = Append(Tail(ready), ConsHandle)
               ELSE /\ ready' = Tail(ready)
                    /\ UNCHANGED cons
            /\ UNCHANGED putters
    /\ UNCHANGED delivered
    /\ UNCHANGED <<unit, confVars, storeVars, readyVars, semVars, reqVars, genVars, prodVars>>

\* one iteration of the consumer's `while True` with rdy the ready handles:
\* queue.get() suspends on an empty queue; otherwise get_nowait pops the
\* head and wakes the first blocked putter; None ends the stream; any other
\* item is yielded and _sse_iter frames it twice.  After the yield the
\* consumer goes on at once or waits for the transport.
ConsumerIter(r, rdy) ==
    IF queue = <<>>
    THEN /\ cons' = "getting"
         /\ ready' = rdy
         /\ UNCHANGED <<queue, putters, delivered, reqVars>>
    ELSE /\ queue' = Tail(queue)
         /\ IF putters # <<>>
            THEN /\ ready' = Append(rdy, Handle("put", Head(putters)))
                 /\ putters' = Tail(putters)
            ELSE /\ ready' = rdy
                 /\ UNCHANGED putters
         /\ IF Head(queue) = CloseMarker
            THEN /\ cons' = "closed"
                 /\ pc' = [pc EXCEPT ![r] = "done"]
                 /\ UNCHANGED <<delivered, frames>>
            ELSE /\ delivered' = Append(delivered, Head(queue))
                 /\ frames' = [frames EXCEPT ![r] =
                                 @ \o EventFrames(Head(queue).ev, Head(queue).data)]
                 /\ cons' \in {"running", "sending"}
                 /\ UNCHANGED pc
         /\ UNCHANGED <<req, work, raised, status>>

\* the loop resumes the consumer task
LoopConsumer ==
    /\ LoopFree
    /\ Head(ready).h = "cons"
    /\ \E r \in Req : Streaming(r) /\ ConsumerIter(r, Tail(ready))
    /\ UNCHANGED <<unit, confVars, storeVars, readyVars, semVars, genVars, prodVars>>

\* the consumer goes on to its next queue.get() without suspending
ConsumerContinue ==
    /\ cons = "running"
    /\ \E r \in Req : Streaming(r) /\ ConsumerIter(r, ready)
    /\ UNCHANGED <<unit, confVars, storeVars, readyVars, semVars, genVars, prodVars>>

\* the transport has taken the frames: the consumer task is ready again
ConsumerResume ==
    /\ LoopIdle
    /\ cons = "sending"
    /\ cons' = "scheduled"
    /\ ready' = Append(ready, ConsHandle)
    /\ UNCHANGED <<queue, putters, delivered>>
    /\ UNCHANGED <<unit, confVars, storeVars, readyVars, semVars, reqVars, genVars, prodVars>>

\* the client disconnects: the response is cancelled while the consumer is
\* suspended in queue.get() or at its yield; its wakeup, if scheduled, is
\* cancelled with it, and nothing is dequeued any more
Abandon ==
    /\ LoopIdle
    /\ cons \in {"getting", "scheduled", "sending"}
    /\ \E r \in Req :
          /\ Streaming(r)
          /\ pc' = [pc EXCEPT ![r] = "done"]
    /\ cons' = "gone"
    /\ ready' = SelectSeq(ready, LAMBDA h : h.h # "cons")
    /\ UNCHANGED <<queue, putters, delivered>>
    /\ UNCHANGED <<req, work, raised, status, frames>>
    /\ UNCHANGED <<unit, confVars, storeVars, readyVars, semVars, genVars, prodVars>>


(***************************************************************************)
(* Initial states and specifications.                                      *)
(***************************************************************************)
Chunk(rc, c) == [rcontent |-> rc, content |-> c]

\* the deltas a model server sends: answer text or reasoning text
ChunkSet == {Chunk(<<>>, <<"a">>), Chunk(<<"r">>, <<>>)}

RECURSIVE SeqsUpTo(_, _)
SeqsUpTo(S, n) ==
    IF n = 0 THEN {<<>>}
    ELSE LET shorter == SeqsUpTo(S, n - 1)
         IN  shorter \cup {Append(q, x) : q \in shorter, x \in S}

ChunkLists == SeqsUpTo(ChunkSet, MaxChunks)

\* FAISS_LOAD_DIR and VECTOR_STORE_DIR, each set or not, and what they hold
CandidateLists ==
    {<<"loadfail", "ok">>, <<"bindfail", "ok">>, <<"nodir", "bindfail">>}

\* core/models.py, QueryRequest: the fields the handlers branch on
Body(st, se, ev, q) ==
    [stream |-> st, session |-> se, eval_mode |-> ev, query |-> q,
     think_mode |-> "off"]

\* the same body sent with think_mode "on"
Thinking(b) == [b EXCEPT !.think_mode = "on"]

\* request bodies with eval_mode left at its default, asking "q"
Shape(st, se) == Body(st, se, FALSE, <<"q">>)

\* the model server answers every repair prompt with a rewritten query
RewritingReply == Reply("text", <<HdrIq, "w">>)

\* requests are numbered in the order of their bodies' ranks: the numbers
\* are only names, any request may run at any time
Sorted(rank) == \A r \in Req : r > 1 => rank[req[r - 1]] <= rank[req[r]]

\* no function was called on its own yet, and a new RevealFromBuffer
UnitInit ==
    [norm |-> <<>>, repair |-> <<>>, context |-> <<>>,
     reveal |-> [st |-> RevealInit, fed |-> <<>>, outs |-> <<>>]]

InitRuntime ==
    /\ unit = UnitInit
    /\ index = NoneVal
    /\ retriever = NoneVal
    /\ lazyload_attempted = FALSE
    /\ sem_value = MAX_CONCURRENCY
    /\ sem_waiters = <<>>
    /\ lazy_passes = 0

\* SessionManager.__init__ with no session directory left on disk
InitEmptyStore ==
    /\ max_sessions = MaxSessionCount
    /\ ttl_hours = 1
    /\ cache = <<>>
    /\ disk = [s \in SessionIds |-> NoDir]
    /\ now = 0
    /\ store_op = [n |-> 0, op |-> "none", id |-> 0, raised |-> FALSE,
                   evicted |-> {}, gone |-> {}]
    /\ last_access = <<>>
    /\ switching = [c \in SwitchCalls |-> NoSwitch]

InitRequests ==
    /\ work = [r \in Req |-> WorkInit(req[r].query)]
    /\ raised = [r \in Req |-> "none"]
    /\ status = [r \in Req |-> "none"]
    /\ frames = [r \in Req |-> <<>>]

InitBridge ==
    /\ ppc = "idle"
    /\ gi = 0
    /\ sent_content = FALSE
    /\ produced = <<>>
    /\ ready = <<>>
    /\ queue = <<>>
    /\ putters = <<>>
    /\ cons = "idle"
    /\ delivered = <<>>

InitIdleBridge ==
    /\ STREAM_COMPAT_DUP_CONTENT = TRUE
    /\ REVEAL_FROM_ENABLED = FALSE
    /\ ENABLE_QUERY_REPAIR = TRUE
    /\ REVEAL_FALLBACK = "keep_all"
    /\ repair_env = {RewritingReply}
    /\ chunks = <<>>
    /\ failAt = NoFail
    /\ InitBridge

\* a process serving NumReq non-streaming requests, with or without a session
QueryShapes == {Shape(FALSE, <<>>), Shape(FALSE, <<1>>)}

Init ==
    /\ InitIdleBridge
    /\ InitEmptyStore
    /\ InitRuntime
    /\ candidates \in {<<"ok">>, <<"nodir", "loadfail">>}
    /\ req \in [Req -> QueryShapes]
    /\ Sorted([s \in QueryShapes |-> Len(s.session)])
    /\ pc = [r \in Req |-> "start"]
    /\ InitRequests

Next ==
    \/ \E r \in Req : QueryBegin(r)
    \/ \E r \in Req : QueryResume(r)
    \/ \E r \in Req : QueryEnsureReady(r)
    \/ \E r \in Req : QuerySession(r)
    \/ \E r \in Req : QueryRepair(r)
    \/ \E r \in Req : QueryRetrieve(r)
    \/ \E r \in Req : QueryGenerate(r)
    \/ \E r \in Req : QueryTimeout(r)

Spec == Init /\ [][Next]_vars

\* a process serving NumReq requests, streaming or not, none with a session,
\* while documents are ingested
ReadyShapes == {Shape(FALSE, <<>>), Shape(TRUE, <<>>)}

InitReady ==
    /\ InitIdleBridge
    /\ InitEmptyStore
    /\ InitRuntime
    /\ candidates \in CandidateLists
    /\ req \in [Req -> ReadyShapes]
    /\ Sorted([s \in ReadyShapes |-> IF s.stream THEN 1 ELSE 0])
    /\ pc = [r \in Req |-> "start"]
    /\ InitRequests

NextReady ==
    \/ \E r \in Req : QueryBegin(r)
    \/ \E r \in Req : QueryResume(r)
    \/ \E r \in Req : QueryEnsureReady(r)
    \/ \E r \in Req : QueryRetrieve(r)
    \/ \E r \in Req : QueryGenerate(r)
    \/ \E r \in Req : QueryTimeout(r)
    \/ \E r \in Req : StreamBegin(r)
    \/ \E r \in Req : StreamRetrieve(r)
    \/ UpsertDocument

SpecReady == InitReady /\ [][NextReady]_vars

\* a process serving one streaming request of a session, with the bridge;
\* REVEAL_FROM_ENABLED is left at its default
InitStream ==
    /\ STREAM_COMPAT_DUP_CONTENT \in BOOLEAN
    /\ REVEAL_FROM_ENABLED = FALSE
    /\ ENABLE_QUERY_REPAIR = TRUE
    /\ REVEAL_FALLBACK = "keep_all"
    /\ repair_env = {RewritingReply}
    /\ InitRuntime
    /\ candidates \in {<<"ok">>, <<"nodir", "loadfail">>}
    /\ req = [r \in Req |-> Shape(TRUE, <<1>>)]
    /\ pc = [r \in Req |-> IF r = 1 THEN "start" ELSE "done"]
    /\ InitRequests
    /\ chunks \in ChunkLists
    /\ failAt \in (0..Len(chunks)) \cup {NoFail}
    /\ InitBridge
    /\ InitEmptyStore

NextStream ==
    \/ \E r \in Req : StreamBegin(r)
    \/ \E r \in Req : StreamSession(r)
    \/ \E r \in Req : StreamRepair(r)
    \/ \E r \in Req : StreamRetrieve(r)
    \/ \E r \in Req : StartProduction(r)
    \/ ProducerNext
    \/ ProducerEmit
    \/ ProducerAfterLoop
    \/ ProducerExcept
    \/ ProducerDone
    \/ ProducerClose
    \/ LoopCallback
    \/ LoopPut
    \/ LoopConsumer
    \/ ConsumerContinue
    \/ ConsumerResume

SpecStream == InitStream /\ [][NextStream]_vars

\* what the model server may send in one delta when the answer is filtered:
\* plain text, or the token with a blank and text after it
AnswerChunkSet ==
    {Chunk(<<>>, <<"a">>),
     Chunk(<<>>, <<"<", ">", Blank, "y">>)}

\* a non-streaming request (1) and a streaming request (2) with the same
\* think_mode, answered by the same generator output, with the reveal
\* filter enabled and the compatibility duplicate off
InitAnswer ==
    /\ STREAM_COMPAT_DUP_CONTENT = FALSE
    /\ REVEAL_FROM_ENABLED = TRUE
    /\ ENABLE_QUERY_REPAIR = FALSE
    /\ REVEAL_FALLBACK \in {"keep_all", "empty", "after_think_tag"}
    /\ repair_env = {RewritingReply}
    /\ InitRuntime
    /\ candidates = <<"ok">>
    /\ \E think \in BOOLEAN :
          req = [r \in Req |->
                    LET b == Shape(r # 1, <<>>) IN
                    IF think /\ r \in {1, 2} THEN Thinking(b) ELSE b]
    /\ pc = [r \in Req |-> IF r \in {1, 2} THEN "start" ELSE "done"]
    /\ InitRequests
    /\ chunks \in SeqsUpTo(AnswerChunkSet, MaxChunks)
    /\ failAt \in {0, NoFail}
    /\ InitBridge
    /\ InitEmptyStore

NextAnswer ==
    \/ \E r \in Req : QueryBegin(r)
    \/ \E r \in Req : QueryEnsureReady(r)
    \/ \E r \in Req : QueryRetrieve(r)
    \/ \E r \in Req : QueryGenerate(r)
    \/ \E r \in Req : QueryTimeout(r)
    \/ \E r \in Req : StreamBegin(r)
    \/ \E r \in Req : StreamRetrieve(r)
    \/ \E r \in Req : StartProduction(r)
    \/ ProducerNext
    \/ ProducerAfterLoop
    \/ ProducerExcept
    \/ ProducerDone
    \/ ProducerClose
    \/ LoopCallback
    \/ LoopPut
    \/ LoopConsumer
    \/ ConsumerContinue
    \/ ConsumerResume

SpecAnswer == InitAnswer /\ [][NextAnswer]_vars

\* the producer thread: any of its steps
ProducerStep ==
    \/ ProducerNext
    \/ ProducerEmit
    \/ ProducerAfterLoop
    \/ ProducerExcept
    \/ ProducerDone
    \/ ProducerClose

\* the same stream with a client that may disconnect at any point; the
\* executor keeps running the producer thread
NextAbandon ==
    \/ NextStream
    \/ Abandon

\* one streaming request with the index on disk and a generator that sends
\* a reasoning chunk and then content chunks, failing at its end or not at all
InitAbandon ==
    /\ InitStream
    /\ STREAM_COMPAT_DUP_CONTENT
    /\ candidates = <<"ok">>
    /\ chunks = [i \in 1..MaxChunks |->
                    IF i = 1 THEN Chunk(<<"r">>, <<>>) ELSE Chunk(<<>>, <<"a">>)]
    /\ failAt \in {Len(chunks), NoFail}

SpecAbandon ==
    InitAbandon /\ [][NextAbandon]_vars /\ WF_vars(ProducerStep)


(***************************************************************************)
(* The Session Store on its own: the calls of routers/session.py and of    *)
(* the query handlers, with time passing between them.                     *)
(***************************************************************************)
\* the summaries and index a caller of update_session passes
UpdateArgs == {<<"A2", "R2", "ix", <<"n">>>>}

\* POST /session/init: session_manager.init_session(id)
StoreInit(id) ==
    /\ store_op.n < MaxOps
    /\ \E io \in IOs :
          ApplyStore("init", id, init_session(cache, disk, id, io))
    /\ UNCHANGED <<unit, confVars, readyVars, semVars, reqVars, bridgeVars>>

\* session_manager.get_or_create(id), as called by the query handlers and
\* by POST /session/switch
StoreGetOrCreate(id) ==
    /\ store_op.n < MaxOps
    /\ \E io \in IOs :
          ApplyStore("get_or_create", id, get_or_create(cache, disk, id, io))
    /\ UNCHANGED <<unit, confVars, readyVars, semVars, reqVars, bridgeVars>>

\* session_manager.update_session(id, ...), as called by POST /session/switch
StoreUpdate(id) ==
    /\ store_op.n < MaxOps
    /\ \E a \in UpdateArgs, io \in IOs :
          ApplyStore("update", id,
                     update_session(cache, disk, id, a[1], a[2], a[3], a[4], io))
    /\ UNCHANGED <<unit, confVars, readyVars, semVars, reqVars, bridgeVars>>

\* an hour passes
Tick ==
    /\ now < MaxTime
    /\ now' = now + 1
    /\ UNCHANGED <<max_sessions, ttl_hours, cache, disk, store_op, last_access,
                   switching>>
    /\ UNCHANGED <<unit, confVars, readyVars, semVars, reqVars, bridgeVars>>

\* session directories an earlier process left behind
LeftDirs == {NoDir, Dir("meta", "A1", "R1", <<0>>)}

\* a process whose store starts empty over the directories an earlier
\* process left (ids are only names: the ids with a directory come first);
\* no query is served
InitStore ==
    /\ InitIdleBridge
    /\ InitRuntime
    /\ candidates = <<"ok">>
    /\ req = [r \in Req |-> Shape(FALSE, <<>>)]
    /\ pc = [r \in Req |-> "done"]
    /\ InitRequests
    /\ max_sessions \in 1..MaxSessionCount
    /\ ttl_hours \in {0, 1}
    /\ cache = <<>>
    /\ disk \in [SessionIds -> LeftDirs]
    /\ \A s \in SessionIds : (s > 1 /\ disk[s] # NoDir) => disk[s - 1] # NoDir
    /\ now = 0
    /\ store_op = [n |-> 0, op |-> "none", id |-> 0, raised |-> FALSE,
                   evicted |-> {}, gone |-> {}]
    /\ last_access = <<>>
    /\ switching = [c \in SwitchCalls |-> NoSwitch]

NextStore ==
    \/ \E id \in SessionIds : StoreInit(id)
    \/ \E id \in SessionIds : StoreGetOrCreate(id)
    \/ \E id \in SessionIds : StoreUpdate(id)
    \/ Tick

SpecStore == InitStore /\ [][NextStore]_vars


(***************************************************************************)
(* POST /session/switch (routers/session.py, switch_session): the          *)
(* summaries are built in a thread; everything after that await runs in    *)
(* one step of the event loop.                                             *)
(***************************************************************************)
RECENT_QA_WINDOW == 5

\* req.messages: the turns of the conversation so far, oldest first
MessageLists == {<<>>, <<"t1">>, <<"t1", "t2">>}

\* the model server answers a summary prompt, or the call fails or has no
\* content
LLMs == {"ok", "fail"}

\* the index build succeeds, or the embedding / index construction raises,
\* or sc.persist raises after the index was constructed
Builds == {"ok", "embed", "persist"}

\* _format_messages: the turns of the prompt, in order
RECURSIVE _format_messages(_)
_format_messages(ms) ==
    IF ms = <<>> THEN "" ELSE Head(ms) \o _format_messages(Tail(ms))

\* summarize_all: "" without messages or when the model call fails
summarize_all(ms, llm) ==
    IF ms = <<>> \/ llm = "fail" THEN "" ELSE "A:" \o _format_messages(ms)

\* messages[-C.RECENT_QA_WINDOW:]
Recent(ms) ==
    SubSeq(ms, IF Len(ms) > RECENT_QA_WINDOW
               THEN Len(ms) - RECENT_QA_WINDOW + 1 ELSE 1, Len(ms))

\* summarize_recent5: the same over the last RECENT_QA_WINDOW turns
summarize_recent5(ms, llm) ==
    IF ms = <<>> \/ llm = "fail" THEN ""
    ELSE "R:" \o _format_messages(Recent(ms))

\* VectorStoreIndex(nodes, ...): an index over the nodes of the messages
\* (MarkdownNodeParser gives the nodes of each "Q: ..\nA: .." text in turn)
VectorStoreIndex(nodes) == "ix:" \o _format_messages(nodes)

\* the turns an index built by switch_session holds
IndexNodes(ix) ==
    LET ms == CHOOSE l \in MessageLists : VectorStoreIndex(l) = ix
    IN  {ms[i] : i \in DOMAIN ms}

\* the turns _retrieve_from_session can return from entry e: none without
\* an index, else those of the index and of the BM25 nodes fused with it
Retrievable(e) ==
    IF e.index = NoneVal THEN {}
    ELSE IndexNodes(e.index) \cup {e.bm25_nodes[i] : i \in DOMAIN e.bm25_nodes}

\* switch_session is called and awaits asyncio.to_thread(build_summaries)
SwitchBegin(c, id, ms) ==
    /\ switching[c].pc = "idle"
    /\ \A k \in SwitchCalls : k < c => switching[k].pc # "idle"
    /\ switching' = [switching EXCEPT
                        ![c] = [@ EXCEPT !.pc = "summarizing", !.id = id,
                                         !.messages = ms]]
    /\ UNCHANGED <<max_sessions, ttl_hours, cache, disk, now, store_op,
                   last_access>>
    /\ UNCHANGED <<unit, confVars, readyVars, semVars, reqVars, bridgeVars>>

\* the thread returns the summaries and switch_session runs to its end:
\* index is assigned when there are nodes and the construction succeeds;
\* get_or_create and sc.persist follow in the same try, and bm25_nodes is
\* assigned only after them; every exception of the try is logged and
\* dropped; update_session is called in all cases, and its exception is
\* the 500 of the call
SwitchFinish(c) ==
    /\ switching[c].pc = "summarizing"
    /\ store_op.n < MaxOps
    /\ \E la \in LLMs, lr \in LLMs, b \in Builds, io1 \in IOs, io2 \in IOs :
          LET w     == switching[c]
              sa    == summarize_all(w.messages, la)
              sr    == summarize_recent5(w.messages, lr)
              nodes == w.messages
              built == nodes # <<>> /\ b # "embed"
              g     == IF built THEN get_or_create(cache, disk, w.id, io1)
                       ELSE StoreResult(cache, disk, FALSE, FALSE, {})
              ix    == IF built THEN VectorStoreIndex(nodes) ELSE NoneVal
              bm    == IF built /\ ~g.raises /\ b = "ok" THEN nodes ELSE <<>>
              u     == update_session(g.cache, g.disk, w.id, sa, sr, ix, bm, io2)
          IN  /\ StoreAssign("switch", w.id,
                             StoreResult(u.cache, u.disk, u.raises,
                                         g.accessed \/ u.accessed,
                                         g.evicted \cup u.evicted))
              /\ switching' = [switching EXCEPT
                                  ![c] = [w EXCEPT
                                             !.pc = "done",
                                             !.summary_all = sa,
                                             !.summary_recent5 = sr,
                                             !.index = ix,
                                             !.bm25_nodes = bm,
                                             !.status = IF u.raises THEN "500"
                                                        ELSE "200"]]
    /\ UNCHANGED <<unit, confVars, readyVars, semVars, reqVars, bridgeVars>>

\* a new process with no session directory on disk; no query is served
InitSwitch ==
    /\ InitIdleBridge
    /\ InitRuntime
    /\ InitEmptyStore
    /\ candidates = <<"ok">>
    /\ req = [r \in Req |-> Shape(FALSE, <<>>)]
    /\ pc = [r \in Req |-> "done"]
    /\ InitRequests

NextSwitch ==
    \/ \E c \in SwitchCalls, id \in SessionIds, ms \in MessageLists :
          SwitchBegin(c, id, ms)
    \/ \E c \in SwitchCalls : SwitchFinish(c)

SpecSwitch == InitSwitch /\ [][NextSwitch]_vars


(***************************************************************************)
(* Query handlers with Query Repair: requests of every kind, streaming     *)
(* ones followed until production has started.                             *)
(***************************************************************************)
\* what the model server may answer to a repair prompt: a failure, no
\* content, all four sections, a blank rewritten query, a blank text
RepairReplies ==
    {Reply("raise", <<>>),
     Reply("none", <<>>),
     Reply("text", <<HdrCorr, "- c", HdrQues, "1) k", HdrIq, "w", HdrAss, "- a">>),
     Reply("text", <<HdrCorr, "- c", HdrIq, Blank>>),
     Reply("text", <<Blank>>)}

\* session_id is Optional[int]: absent, 0 or a positive id
AskShapes ==
    {Body(st, se, ev, <<"q">>) :
        st \in BOOLEAN, se \in {<<>>, <<0>>, <<1>>}, ev \in BOOLEAN}

\* the order the request numbers follow
AskRank(s) ==
    (IF s.stream THEN 6 ELSE 0)
        + (IF s.session = <<>> THEN 0 ELSE IF s.session = <<0>> THEN 2 ELSE 4)
        + (IF s.eval_mode THEN 1 ELSE 0)

\* the requests that are sent; the others never arrive
Asking == {1, 2}

\* the requests of AskShapes arrive at a process that is ready
InitAsk ==
    /\ STREAM_COMPAT_DUP_CONTENT = TRUE
    /\ REVEAL_FROM_ENABLED = FALSE
    /\ ENABLE_QUERY_REPAIR \in BOOLEAN
    /\ REVEAL_FALLBACK = "keep_all"
    /\ repair_env = RepairReplies
    /\ chunks = <<>>
    /\ failAt = NoFail
    /\ InitBridge
    /\ InitRuntime
    /\ candidates = <<"ok">>
    /\ req \in [Req -> AskShapes]
    /\ Sorted([s \in AskShapes |-> AskRank(s)])
    /\ \A r \in Req \ Asking : req[r] = Body(TRUE, <<1>>, TRUE, <<"q">>)
    /\ pc = [r \in Req |-> IF r \in Asking THEN "start" ELSE "done"]
    /\ InitRequests

InitQuery ==
    /\ InitAsk
    /\ InitEmptyStore

NextQuery ==
    \/ \E r \in Req : QueryBegin(r)
    \/ \E r \in Req : QueryResume(r)
    \/ \E r \in Req : QueryEnsureReady(r)
    \/ \E r \in Req : QuerySession(r)
    \/ \E r \in Req : QueryRepair(r)
    \/ \E r \in Req : QueryRetrieve(r)
    \/ \E r \in Req : QueryGenerate(r)
    \/ \E r \in Req : QueryTimeout(r)
    \/ \E r \in Req : StreamBegin(r)
    \/ \E r \in Req : StreamSession(r)
    \/ \E r \in Req : StreamRepair(r)
    \/ \E r \in Req : StreamRetrieve(r)
    \/ \E r \in Req : StartProduction(r)

SpecQuery == InitQuery /\ [][NextQuery]_vars

\* the entry and the directory of a session that POST /session/switch
\* filled with the turn t1
FilledEntry(id) ==
    [NewEntry(id) EXCEPT !.summary_all = summarize_all(<<"t1">>, "ok"),
                         !.summary_recent5 = summarize_recent5(<<"t1">>, "ok"),
                         !.updated_at = <<0>>,
                         !.index = VectorStoreIndex(<<"t1">>),
                         !.bm25_nodes = <<"t1">>]

FilledDir ==
    Dir("meta", summarize_all(<<"t1">>, "ok"),
        summarize_recent5(<<"t1">>, "ok"), <<0>>)

\* a store that holds as many sessions as max_sessions allows: the
\* sessions 2, 3, .. were switched to before the queries arrive
InitFullStore ==
    /\ max_sessions = MaxSessionCount
    /\ ttl_hours = 1
    /\ cache = [i \in 1..MaxSessionCount |-> FilledEntry(i + 1)]
    /\ disk = [s \in SessionIds |->
                  IF s \in 2..(MaxSessionCount + 1) THEN FilledDir ELSE NoDir]
    /\ now = 0
    /\ store_op = [n |-> 0, op |-> "none", id |-> 0, raised |-> FALSE,
                   evicted |-> {}, gone |-> {}]
    /\ last_access = [i \in 1..MaxSessionCount |-> i + 1]
    /\ switching = [c \in SwitchCalls |-> NoSwitch]

InitFull ==
    /\ InitAsk
    /\ InitFullStore

\* the queries of SpecQuery served over a full store
SpecFull == InitFull /\ [][NextQuery]_vars


(***************************************************************************)
(* Query Repair in the handlers (claims C15, C16, C18).                    *)
(***************************************************************************)
\* C15: a non-streaming request with eval_mode = true is answered with
\* repair_context and used_query both absent, and neither the session
\* snippet lookup nor Query Repair was invoked for it
C15_EvalModeSkipsRepair ==
    \A r \in Req :
        (~req[r].stream /\ req[r].eval_mode) =>
            /\ ~work[r].session_lookup
            /\ work[r].reply = <<>>
            /\ ~work[r].generator
            /\ work[r].response # <<>> =>
                  /\ work[r].response[1].repair_context = <<>>
                  /\ work[r].response[1].used_query = <<>>

C15_Witness ==
    \E r \in Req :
        /\ ~req[r].stream
        /\ req[r].eval_mode
        /\ req[r].session # <<>>
        /\ ENABLE_QUERY_REPAIR
        /\ status[r] = "200"
        /\ work[r].response # <<>>

\* the repair has returned a context for request r
Repaired(r) == work[r].repair_context # <<>>

\* C16: on both paths the Retriever is called with the rewritten query
\* when the repair returned a non-empty one, and with the query as sent
\* when it returned an empty one; the prompt is built from the query as
\* sent
C16_RetrievesRewrittenPromptsOriginal ==
    \A r \in Req :
        /\ (Repaired(r) /\ work[r].retrieve_query # <<>>) =>
              work[r].retrieve_query =
                  IF work[r].repair_context[1].improved_query # <<>>
                  THEN <<work[r].repair_context[1].improved_query>>
                  ELSE <<req[r].query>>
        /\ (Repaired(r) /\ work[r].prompt_query # <<>>) =>
              work[r].prompt_query = <<req[r].query>>

C16_Witness ==
    \E r, s \in Req :
        /\ req[r].stream
        /\ ~req[s].stream
        /\ \A x \in {r, s} :
              /\ Repaired(x)
              /\ work[x].repair_context[1].improved_query = <<"w">>
              /\ work[x].retrieve_query = <<<<"w">>>>
              /\ work[x].prompt_query = <<<<"q">>>>

\* the repair prompt of request r was not answered with a usable text
RepairFailed(r) ==
    /\ work[r].reply # <<>>
    /\ \/ work[r].reply[1].kind \in {"raise", "none"}
       \/ work[r].reply[1].text = <<>>

\* what holds once the repair prompt of a request was answered
RepairAbsorbed ==
    \A r \in Req :
        /\ work[r].reply # <<>> => Repaired(r)
        /\ RepairFailed(r) =>
              /\ work[r].repair_context = <<IdentityResult(req[r].query)>>
              /\ work[r].retrieve_query \in {<<>>, <<req[r].query>>}

\* C18: Query Repair never raises; when the generation fails or returns
\* an empty body it returns the identity result, and the request goes on to
\* Retrieval with the query as sent
C18_RepairFailureKeepsOriginal ==
    /\ []RepairAbsorbed
    /\ [][\A r \in Req :
            (work[r].reply = <<>> /\ work'[r].reply # <<>>) =>
                /\ pc'[r] = "retrieve"
                /\ work'[r].final_query = req[r].query
                     \/ ~RepairFailed(r)']_vars

C18_Witness ==
    \E r, s \in Req :
        /\ work[r].reply = <<Reply("raise", <<>>)>>
        /\ work[s].reply = <<Reply("none", <<>>)>>
        /\ \A x \in {r, s} : work[x].retrieve_query = <<req[x].query>>


(***************************************************************************)
(* The stateless functions and the Reveal Filter called on their own:      *)
(* _norm_event on a label, repair_query on a query and an answer of the    *)
(* model server, RevealFromBuffer.add on chunk after chunk.                *)
(***************************************************************************)
\* the labels a generator may attach to an event
Labels ==
    {"delta", "text", "token", "message", "DELTA",
     "thought", "chain_of_thought", "cot", "reasoning", "Reasoning",
     "first_token", "ttft", "TTFT",
     "end", "complete", "completion", "done", "Done",
     "", NoneVal, "foo", "error"}

\* chunks of text around the two characters of the token
RevealChunks ==
    {<<>>, <<"x">>, <<"<">>, <<">", "x">>, <<"x", "<", ">", "y">>}

\* ev = _norm_event(label)
CallNormEvent ==
    /\ \E label \in Labels :
          unit' = [unit EXCEPT !.norm =
                      <<[label |-> label, kind |-> _norm_event(label)]>>]
    /\ UNCHANGED <<confVars, storeVars, readyVars, semVars, reqVars, bridgeVars>>

\* repair_query(user_query=q, ...) while the model server behaves as reply
CallRepair ==
    /\ \E q \in {<<>>, <<"q">>}, reply \in repair_env :
          unit' = [unit EXCEPT !.repair =
                      <<[query |-> q, reply |-> reply,
                         result |-> repair_query(q, reply)]>>]
    /\ UNCHANGED <<confVars, storeVars, readyVars, semVars, reqVars, bridgeVars>>

\* reveal_buffer.add(chunk) on the buffer fed so far
FeedReveal ==
    /\ Len(unit.reveal.fed) < MaxFeeds
    /\ \E chunk \in RevealChunks :
          LET a == RevealAdd(unit.reveal.st, chunk) IN
          unit' = [unit EXCEPT !.reveal =
                      [st   |-> a.st,
                       fed  |-> Append(unit.reveal.fed, chunk),
                       outs |-> Append(unit.reveal.outs, a.out)]]
    /\ UNCHANGED <<confVars, storeVars, readyVars, semVars, reqVars, bridgeVars>>

InitUnits ==
    /\ STREAM_COMPAT_DUP_CONTENT = TRUE
    /\ REVEAL_FROM_ENABLED = TRUE
    /\ ENABLE_QUERY_REPAIR \in BOOLEAN
    /\ REVEAL_FALLBACK = "keep_all"
    /\ repair_env = RepairReplies
    /\ chunks = <<>>
    /\ failAt = NoFail
    /\ InitBridge
    /\ InitEmptyStore
    /\ InitRuntime
    /\ candidates = <<"ok">>
    /\ req = [r \in Req |-> Shape(FALSE, <<>>)]
    /\ pc = [r \in Req |-> "done"]
    /\ InitRequests

\* the two stateless functions are called, again and again
NextUnits ==
    \/ CallNormEvent
    \/ CallRepair

SpecUnits == InitUnits /\ [][NextUnits]_vars

\* build_context(nodes) for the nodes the Retriever returned
CallBuildContext ==
    /\ \E nodes \in SeqsUpTo(NodeSet, MaxNodes) :
          unit' = [unit EXCEPT !.context =
                      <<[nodes |-> nodes, result |-> build_context(nodes)]>>]
    /\ UNCHANGED <<confVars, storeVars, readyVars, semVars, reqVars, bridgeVars>>

\* context assembly is called, again and again
NextContext == CallBuildContext

SpecContext == InitUnits /\ [][NextContext]_vars

\* one RevealFromBuffer is fed up to MaxFeeds chunks
NextReveal == FeedReveal

SpecReveal == InitUnits /\ [][NextReveal]_vars


(***************************************************************************)
(* Query Repair disabled, Event Normalizer, Reveal Filter (claims C17,     *)
(* C19, C20).                                                              *)
(***************************************************************************)
\* C17: when Query Repair is disabled by configuration, repair_query
\* returns for every input a result whose rewritten query is the query it
\* was given and whose three lists are empty, and the Generator is not
\* called
C17_DisabledRepairIsIdentity ==
    (~ENABLE_QUERY_REPAIR /\ unit.repair # <<>>) =>
        LET c == unit.repair[1] IN
        /\ c.result.ctx.improved_query = c.query
        /\ c.result.ctx.corrections = <<>>
        /\ c.result.ctx.questions = <<>>
        /\ c.result.ctx.assumptions = <<>>
        /\ ~c.result.generator
        /\ ~c.result.raises

C17_Witness ==
    /\ ~ENABLE_QUERY_REPAIR
    /\ unit.repair # <<>>
    /\ unit.repair[1].query = <<"q">>
    /\ unit.repair[1].reply.kind = "text"
    /\ unit.repair[1].result.ctx.improved_query = <<"q">>

\* C19: for every label, in any letter case, empty or missing, the
\* Event Normalizer returns content, reasoning, ttft or done: each alias
\* gives its kind and every other label gives content
C19_NormalizesToCanonicalKind ==
    unit.norm # <<>> =>
        LET e == Lower(unit.norm[1].label)
            k == unit.norm[1].kind
        IN  /\ k \in {"content", "reasoning", "ttft", "done"}
            /\ k = CASE e \in {"thought", "chain_of_thought", "cot", "reasoning"}
                          -> "reasoning"
                     [] e \in {"first_token", "ttft"} -> "ttft"
                     [] e \in {"end", "complete", "completion", "done"} -> "done"
                     [] OTHER -> "content"

\* the text fed to the filter by its first i chunks
RECURSIVE Fed(_)
Fed(i) == IF i = 0 THEN <<>> ELSE Fed(i - 1) \o unit.reveal.fed[i]

\* each chunk against the whole input so far
RevealedFromToken ==
    /\ \A i \in DOMAIN unit.reveal.fed :
          unit.reveal.outs[i] =
              IF Contains(Fed(i - 1), REVEAL_FROM_TOKEN) THEN unit.reveal.fed[i]
              ELSE IF Contains(Fed(i), REVEAL_FROM_TOKEN)
              THEN AfterFirst(Fed(i), REVEAL_FROM_TOKEN)
              ELSE <<>>
    /\ unit.reveal.st.revealed
          = Contains(Fed(Len(unit.reveal.fed)), REVEAL_FROM_TOKEN)

\* C20: every chunk fed to the Reveal Filter is withheld until the token
\* occurs in the input so far, also when the token is split across chunks;
\* the chunk that completes the first occurrence gives the text after it;
\* every later chunk comes out unchanged and revealed never goes back to
\* false
C20_WithheldUntilToken ==
    /\ []RevealedFromToken
    /\ [][unit.reveal.st.revealed => unit'.reveal.st.revealed]_vars

C20_Witness ==
    /\ unit.reveal.fed = <<<<"<">>, <<">", "x">>, <<"x", "<", ">", "y">>>>
    /\ unit.reveal.outs = <<<<>>, <<"x">>, <<"x", "<", ">", "y">>>>
    /\ unit.reveal.st.revealed


(***************************************************************************)
(* Session Store: capacity, recency, TTL, persistence errors (claims       *)
(* C11..C14).                                                              *)
(***************************************************************************)
\* position of x in a sequence without repetitions
Pos(seq, x) == CHOOSE i \in DOMAIN seq : seq[i] = x

\* a store call has completed
StoreCalled == store_op.op # "none"

\* C11: after every Session Store operation (init, get_or_create as a hit,
\* a reload or a creation, update) the number of live entries is at most
\* max_sessions
C11_CountWithinCapacity == Len(cache) <= max_sessions

\* C12: the entries capacity eviction removes are exactly the least
\* recently accessed ones: the store keeps its entries in the order of
\* their last access by init, get_or_create (hit, reload, creation) or
\* update, the id a call referenced is the most recently used one, and an
\* eviction removes ids accessed before every id it keeps, and only as
\* many as the count exceeds max_sessions
RecencyOrder ==
    /\ \A i, j \in DOMAIN cache :
          i < j => Pos(last_access, cache[i].id) < Pos(last_access, cache[j].id)
    /\ (StoreCalled /\ ~store_op.raised) =>
          /\ cache # <<>>
          /\ cache[Len(cache)].id = store_op.id
    /\ \A e \in store_op.evicted : \A k \in CacheIds(cache) :
          /\ e # k
          /\ Pos(last_access, e) < Pos(last_access, k)

C13_ExpiredRemovedByNextOperation ==
    [][(store_op'.n # store_op.n /\ ttl_hours > 0) =>
         \A i \in DOMAIN cache :
            (Expired(cache[i], now) /\ cache[i].id # store_op'.id) =>
                /\ cache[i].id \notin CacheIds(cache')
                /\ disk'[cache[i].id] = NoDir]_vars

\* C14: a persistence I/O error while creating or updating a session is not
\* propagated: the call returns, the entry is in the store, with the
\* requested summaries after an update
C14_IOErrorNotPropagated ==
    StoreCalled =>
        /\ ~store_op.raised
        /\ store_op.id \in CacheIds(cache)
        /\ store_op.op = "update" =>
              \E a \in UpdateArgs :
                 /\ EntryOf(cache, store_op.id).summary_all = a[1]
                 /\ EntryOf(cache, store_op.id).summary_recent5 = a[2]


(***************************************************************************)
(* Stream contract: the events delivered to the consumer of                *)
(* handle_query_stream and the frames of _sse_iter (claims C1..C6).        *)
(***************************************************************************)
\* positions of the events named e in a sequence of events
Positions(seq, e) == {i \in 1..Len(seq) : seq[i].ev = e}

\* the consumer has read the close marker: the stream is over
StreamEnded == cons = "closed"

\* the generation call raised while the producer was iterating
GenerationRaised == failAt # NoFail

\* C1: in every stream that is over, exactly one `done` event was delivered
\* to the consumer, whether the generator completed or the generation call
\* raised mid-stream
C1_ExactlyOneDone ==
    StreamEnded => Cardinality(Positions(delivered, "done")) = 1

\* C2: `done` is the last event delivered: for every generator output and
\* either setting of STREAM_COMPAT_DUP_CONTENT, no content, reasoning, ttft
\* or error event is delivered after a `done` event
C2_DoneIsLast ==
    \A i \in Positions(delivered, "done") :
        \A j \in (i + 1)..Len(delivered) :
            delivered[j].ev \notin {"content", "reasoning", "ttft", "error"}

\* C3: when the generation call raised after the producer started, the
\* stream that is over holds exactly one `error` event, with a message; it
\* comes after every event produced before the failure and before the
\* `done` event, and the close marker comes after `done` (every event the
\* producer enqueued has been delivered when the consumer reads the marker)
C3_ErrorThenDoneThenClose ==
    (StreamEnded /\ GenerationRaised) =>
        /\ Cardinality(Positions(delivered, "error")) = 1
        /\ Positions(delivered, "done") # {}
        /\ Len(delivered) = Len(produced) - 1
        /\ \A i \in Positions(delivered, "error") :
              /\ delivered[i].data # <<>>
              /\ \A j \in 1..Len(delivered) :
                    /\ delivered[j].ev \notin {"error", "done"} => j < i
                    /\ delivered[j].ev = "done" => i < j

\* C4: a streaming request that failed before production started (not
\* ready, session lookup failure, retriever failure) has yielded frames
\* holding an `error` frame followed by a `done` frame
C4_FailureFramedWithDone ==
    \A r \in Req :
        (req[r].stream /\ pc[r] = "done" /\ raised[r] # "none") =>
            \E i, j \in 1..Len(frames[r]) :
                /\ i < j
                /\ frames[r][i].event = "error"
                /\ frames[r][j].event = "done"

\* C5: a `ttft` event is delivered before the first `content` event, for
\* every generator output (reasoning before content included) and either
\* setting of STREAM_COMPAT_DUP_CONTENT
C5_TtftBeforeContent ==
    \A j \in Positions(delivered, "content") :
        \E i \in Positions(delivered, "ttft") : i < j

\* C6: the consumer receives the events in exactly the order the producer
\* generated them, for every interleaving of producer thread and consumer,
\* the full queue included
C6_DeliveredInProductionOrder ==
    /\ Len(delivered) <= Len(produced)
    /\ \A i \in 1..Len(delivered) : delivered[i] = produced[i]


(***************************************************************************)
(* Admission: the concurrency slots (claims C7, C8, C9).                   *)
(***************************************************************************)
\* non-streaming requests past Admission that have not released their slot
InFlight ==
    {r \in Req : ~req[r].stream
                 /\ pc[r] \in {"admitted", "session", "repair", "retrieve",
                              "generating"}}

\* waiters whose acquire future is resolved: the slot is already theirs
Woken == {r \in Req : pc[r] = "woken"}

\* C7: at every moment the number of non-streaming requests that have
\* passed Admission and not yet released their slot is at most
\* MAX_CONCURRENCY.
C7_InFlightBounded == Cardinality(InFlight) <= MAX_CONCURRENCY

\* all slots are held while a further request waits at admission
C7_Witness ==
    /\ Cardinality(InFlight) = MAX_CONCURRENCY
    /\ \E r \in Req : pc[r] = "sem"

\* the same process serving requests without a session, with fair
\* scheduling: the event loop runs every ready task and every admitted
\* request eventually finishes its awaited call; the request timeout may or
\* may not expire
InitFair ==
    /\ Init
    /\ candidates = <<"ok">>
    /\ \A r \in Req : req[r] = Shape(FALSE, <<>>)

NextFair ==
    \/ \E r \in Req : QueryBegin(r)
    \/ \E r \in Req : QueryResume(r)
    \/ \E r \in Req : QueryEnsureReady(r)
    \/ \E r \in Req : QueryRetrieve(r)
    \/ \E r \in Req : QueryGenerate(r)
    \/ \E r \in Req : QueryTimeout(r)

Fairness ==
    \A r \in Req :
        /\ WF_vars(QueryBegin(r))
        /\ WF_vars(QueryResume(r))
        /\ WF_vars(QueryEnsureReady(r))
        /\ WF_vars(QueryRetrieve(r))
        /\ WF_vars(QueryGenerate(r))

SpecFair == InitFair /\ [][NextFair]_vars /\ Fairness

\* C8 as stated: no request is rejected or errored at admission, each
\* waiting request is eventually admitted, and then completes.
C8_EveryWaiterAdmitted ==
    /\ [][\A r \in Req :
            pc[r] \in {"sem", "woken"}
                => pc'[r] \in {"sem", "woken", "admitted"}]_vars
    /\ \A r \in Req : (pc[r] = "sem") ~> (pc[r] = "admitted")
    /\ \A r \in Req : (pc[r] = "admitted") ~> (pc[r] = "done")

\* C8 (amended): a request waiting at admission is eventually admitted after
\* a slot frees, and then completes, unless the request timeout cancels it
\* first (it then ends with 504); nothing else ends a request at admission.
C8_WaiterAdmittedOrTimedOut ==
    /\ [][\A r \in Req :
            pc[r] \in {"sem", "woken"}
                => \/ pc'[r] \in {"sem", "woken", "admitted"}
                   \/ (pc'[r] = "done" /\ status'[r] = "504")]_vars
    /\ \A r \in Req : (pc[r] = "sem") ~> (pc[r] = "admitted" \/ status[r] = "504")
    /\ \A r \in Req : (pc[r] = "admitted") ~> (pc[r] = "done")

\* more requests than slots: one has finished normally, a waiter has been
\* given the freed slot, another request still waits
C8_Witness ==
    \E q, r, w \in Req :
        /\ status[q] = "200"
        /\ pc[r] = "woken"
        /\ pc[w] = "sem"

\* C9: every exit of a non-streaming request that acquired a slot releases
\* exactly one slot (the slots free, held and handed to woken waiters always
\* add up to MAX_CONCURRENCY), so when no non-streaming request is in
\* flight all MAX_CONCURRENCY slots are free.
C9_SlotsReleased ==
    /\ sem_value + Cardinality(InFlight) + Cardinality(Woken) = MAX_CONCURRENCY
    /\ (\A r \in Req : pc[r] \in {"start", "done"}) => sem_value = MAX_CONCURRENCY

\* every request has ended, among them one by a normal return, one by an
\* upstream exception and one by the request timeout
C9_Witness ==
    /\ \A r \in Req : pc[r] = "done"
    /\ \E a, b, c \in Req :
        /\ raised[a] = "none"
        /\ raised[b] = "Exception"
        /\ raised[c] = "Cancelled"


(***************************************************************************)
(* Readiness: the lazy load (claim C10).                                   *)
(***************************************************************************)
\* request r runs its readiness step (_ensure_ready) in this step
ReadinessStep(r) ==
    /\ pc[r] = (IF req[r].stream THEN "start" ELSE "admitted")
    /\ pc'[r] # pc[r]

\* C10: across any interleaving of streaming and non-streaming requests the
\* lazy-load pass over the candidate locations runs at most once, and once
\* it has been attempted a request that finds no bound index fails with the
\* not-ready condition without running the pass again.
C10_LazyLoadAtMostOnce ==
    /\ [](lazy_passes <= 1)
    /\ [][\A r \in Req :
            (ReadinessStep(r) /\ lazyload_attempted /\ ~has_index)
                => /\ raised'[r] = "NotReady"
                   /\ lazy_passes' = lazy_passes
                   /\ ~has_index']_vars

\* the pass ran once and failed; a non-streaming and a streaming request
\* have both ended with the not-ready condition
C10_Witness ==
    /\ lazy_passes = 1
    /\ ~has_index
    /\ \E q, r \in Req :
        /\ ~req[q].stream /\ raised[q] = "NotReady" /\ status[q] = "409"
        /\ req[r].stream /\ raised[r] = "NotReady"


(***************************************************************************)
(* Outcome of a non-streaming request at the request boundary (claim C24). *)
(***************************************************************************)
\* C24: a non-streaming request ends with 409 exactly when no index is
\* bound and the lazy load failed or was already attempted; a failure of
\* the Retriever or of the Generator always ends with 500, never with 409
C24_NotReadyOnlyWhenNoIndex ==
    \A r \in Req :
        (~req[r].stream /\ pc[r] = "done") =>
            /\ status[r] = "409" <=> raised[r] = "NotReady"
            /\ raised[r] \in {"RuntimeError", "Exception"} => status[r] = "500"


(***************************************************************************)
(* Stream bridge: backpressure and the close marker (claims C25, C26).     *)
(***************************************************************************)
\* events the producer has generated and the consumer has not dequeued:
\* in the queue, or in a put that has not completed
Undelivered ==
    Len(produced) - Len(delivered) - (IF cons = "closed" THEN 1 ELSE 0)

\* C25: at every moment of a stream the events generated and not yet
\* dequeued, queued or in a pending write, are at most the queue capacity:
\* the producer is held back while the queue is full
C25_ProducerHeldBack == Undelivered <= QueueMaxSize

\* C26: when the consumer reads the close marker, every event the producer
\* generated, `done` included, has been yielded before it: the marker is
\* the last item to enter the queue and no produced event is lost
C26_NothingLostAtClose ==
    StreamEnded =>
        /\ ppc = "finished"
        /\ delivered = SubSeq(produced, 1, Len(produced) - 1)
        /\ Positions(delivered, "done") # {}
        /\ queue = <<>> /\ putters = <<>>


(***************************************************************************)
(* Streaming requests and the admission semaphore (claim C27).             *)
(***************************************************************************)
\* the next step of handle_query_stream for r, up to the retrieval
StreamStep(r) ==
    \/ StreamBegin(r)
    \/ StreamSession(r)
    \/ StreamRepair(r)
    \/ StreamRetrieve(r)

\* a streaming request is never a waiter of the semaphore, and whatever
\* the slots, its next step can be taken as soon as the loop runs a task
StreamNeverWaits ==
    \A r \in Req :
        req[r].stream =>
            /\ pc[r] \notin {"sem", "woken", "admitted"}
            /\ r \notin {sem_waiters[i] : i \in DOMAIN sem_waiters}
            /\ (pc[r] \in {"start", "session", "repair", "retrieve"} /\ LoopIdle)
                  => ENABLED StreamStep(r)

ProducerRunning == ppc \notin {"idle", "finished"}

\* C23: if the consumer stops dequeuing at any point of a stream, the
\* producer is not terminated and runs to completion: it is never blocked
\* on a queue write, so it finishes when the generator's events end
C23_ProducerOutlivesConsumer ==
    /\ [](ProducerRunning => ENABLED ProducerStep)
    /\ [][cons' = "gone" /\ cons # "gone" => ppc' = ppc]_vars
    /\ (cons = "gone") ~> (ppc = "finished")

\* the consumer left with the queue full and a write waiting for room, and
\* the producer has returned all the same
C23_Witness ==
    /\ cons = "gone"
    /\ Full
    /\ putters # <<>>
    /\ ppc = "finished"


(***************************************************************************)
(* The reveal filter on the answer (claims C21, C22, C29, C30).            *)
(***************************************************************************)
\* everything the model server sent as content, in order
RECURSIVE RawContent(_)
RawContent(cs) ==
    IF cs = <<>> THEN <<>> ELSE Head(cs).content \o RawContent(Tail(cs))

\* request r is a non-streaming request that returned its response
Answered(r) ==
    /\ ~req[r].stream
    /\ pc[r] = "done"
    /\ work[r].answer # <<>>

\* Answered(r) with the reveal filter enabled and reasoning off
AnsweredFiltered(r) ==
    /\ Answered(r)
    /\ REVEAL_FROM_ENABLED
    /\ ~EnableThinking(req[r])

\* the stream has ended and every event the producer made was yielded
StreamedAll ==
    /\ StreamEnded
    /\ delivered = SubSeq(produced, 1, Len(produced) - 1)

\* C21: with the reveal filter enabled and reasoning off, when the
\* generator's content never contains the token the non-streaming answer is
\* empty under the fallback policy empty, and is the whole withheld content
\* under keep_all
C21_FallbackWhenTokenAbsent ==
    \A r \in Req :
        (AnsweredFiltered(r) /\ ~Contains(RawContent(chunks), REVEAL_FROM_TOKEN)) =>
            /\ REVEAL_FALLBACK = "empty" => work[r].answer[1] = <<>>
            /\ REVEAL_FALLBACK = "keep_all" =>
                   work[r].answer[1] = Strip(RawContent(chunks))

\* C22: with the reveal filter enabled and reasoning off, when the content
\* contains the token (once) the non-streaming answer is the trimmed text
\* after the token, under every fallback policy
C22_TextAfterTokenAnyFallback ==
    \A r \in Req :
        LET raw == RawContent(chunks) IN
        (/\ AnsweredFiltered(r)
         /\ Contains(raw, REVEAL_FROM_TOKEN)
         /\ FindFirst(raw, REVEAL_FROM_TOKEN) = FindLast(raw, REVEAL_FROM_TOKEN)) =>
            work[r].answer[1] = Strip(AfterFirst(raw, REVEAL_FROM_TOKEN))

\* C29: with think_mode on no reveal filtering happens in either path: the
\* non-streaming answer is the whole content, trimmed, and the streamed
\* content payloads are the whole content
C29_NoFilterWhenThinking ==
    /\ \A r \in Req :
          (Answered(r) /\ EnableThinking(req[r])) =>
              work[r].answer[1] = Strip(RawContent(chunks))
    /\ (StreamedAll /\ \E r \in Req : req[r].stream /\ EnableThinking(req[r])) =>
          JoinContent(delivered) = RawContent(chunks)

\* C30: for the same generator output, with the reveal filter enabled,
\* reasoning off and the compatibility duplicate off, the streamed content
\* payloads joined together are the non-streaming answer up to leading and
\* trailing blanks
C30_StreamEqualsAnswer ==
    \A r \in Req :
        (/\ AnsweredFiltered(r)
         /\ ~STREAM_COMPAT_DUP_CONTENT
         /\ StreamedAll) =>
            Strip(JoinContent(delivered)) = Strip(work[r].answer[1])


(***************************************************************************)
(* The event loop during a generation (claim C28).                         *)
(***************************************************************************)
\* the non-streaming requests inside their generation loop
Generating == {r \in Req : pc[r] = "generating"}

\* C28: while a non-streaming request is in its generation step the event
\* loop stays free: a request that has arrived can be admitted and go on,
\* a consumer whose wakeup is ready can dequeue, and the request timeout
\* can cancel the generating request
C28_LoopFreeDuringGeneration ==
    \A r \in Generating :
        /\ ENABLED QueryTimeout(r)
        /\ (\E s \in Req : pc[s] = "start") =>
               ENABLED (\E s \in Req : QueryBegin(s) \/ StreamBegin(s))
        /\ (ready # <<>> /\ cons # "running") =>
               ENABLED (LoopCallback \/ LoopPut \/ LoopConsumer)


(***************************************************************************)
(* What an abandoned stream leaves behind (claim C40).                     *)
(***************************************************************************)
\* nothing of the stream can take a step any more
Quiescent == ~ENABLED NextAbandon

\* C40: when the consumer has abandoned the stream and the producer has
\* finished, no queue write stays pending for ever: once nothing can run
\* any more, every write the producer scheduled has completed or has been
\* discarded
C40_NoWriteLeftPending ==
    (cons = "gone" /\ ppc = "finished" /\ Quiescent) =>
        /\ putters = <<>>
        /\ ready = <<>>


(***************************************************************************)
(* The sections of a repair response (claim C35).                          *)
(***************************************************************************)
\* the '-' lines of the section of text t under header hdr, which ends at
\* the next of the headers stops
BulletsOf(t, hdr, stops) ==
    Items(Strip(Section(t, hdr, stops).body), IsBullet, BulletText)

\* C35: for a repair response with its section markers in the fixed order,
\* each field of the result holds exactly the entries of its own section
\* (corrections: its '-' lines; questions: its numbered lines; the
\* rewritten query: the section text; assumptions: the '-' lines after the
\* assumptions marker), and a field whose marker is absent is empty
C35_FieldsHoldOwnSections ==
    \A i \in DOMAIN unit.repair :
        LET c == unit.repair[i]
            t == Strip(c.reply.text)
        IN  (ENABLE_QUERY_REPAIR /\ c.reply.kind = "text" /\ t # <<>>) =>
                /\ c.result.ctx.corrections
                       = BulletsOf(t, HdrCorr, {HdrQues, HdrIq, HdrAss})
                /\ c.result.ctx.questions
                       = Items(Strip(Section(t, HdrQues, {HdrIq, HdrAss}).body),
                               IsNumbered, NumberedText)
                /\ c.result.ctx.improved_query
                       = Strip(Section(t, HdrIq, {HdrAss}).body)
                /\ c.result.ctx.assumptions = BulletsOf(t, HdrAss, {})


(***************************************************************************)
(* When the repair step runs (claim C34).                                  *)
(***************************************************************************)
\* request r is past the place of the repair step in its handler
PastRepair(r) ==
    pc[r] \in {"retrieve", "generating", "producing", "streaming"}

\* C34: the repair step runs for a request if and only if a session id is
\* present, repair is enabled and eval_mode is false, for every integer
\* session id (0 included), on the streaming and the non-streaming path
C34_RepairIffSessionPresent ==
    \A r \in Req :
        PastRepair(r) =>
            (work[r].session_lookup
                <=> (/\ req[r].session # <<>>
                     /\ ENABLE_QUERY_REPAIR
                     /\ ~req[r].eval_mode))


(***************************************************************************)
(* The identifiers returned by context assembly (claim C36).               *)
(***************************************************************************)
\* C36: the list of source identifiers returned by context assembly holds
\* exactly the identifiers of the items included in the context block, one
\* per included item in the order of the returned context items, also when
\* inclusion stops because the total budget would be exceeded
C36_FilesOfIncludedItems ==
    \A k \in DOMAIN unit.context :
        LET res == unit.context[k].result IN
        /\ Len(res.files) = Len(res.contexts)
        /\ Len(res.files) = Len(res.blocks)
        /\ \A j \in DOMAIN res.files :
              /\ res.files[j] = res.contexts[j].file
              /\ res.files[j] = res.blocks[j].file


(***************************************************************************)
(* A failed rebind (claim C37).                                            *)
(***************************************************************************)
\* C37: if binding a new index fails (set_index raises because no retriever
\* can be built), the index and the retriever bound before stay bound and
\* has_index keeps its value: a process that has an index never loses it,
\* and the binding changes only to a new index with its own retriever
C37_FailedRebindKeepsBinding ==
    [][has_index =>
          /\ has_index'
          /\ (index' # index \/ retriever' # retriever) => retriever' = index']_vars


(***************************************************************************)
(* Memory and disk of a live session (claim C32).                          *)
(***************************************************************************)
\* the summaries a reload of directory d would give: those of meta.json,
\* the empty ones when the directory has no meta.json, none when the file
\* cannot be parsed
PersistedSummaries(d) ==
    CASE d.kind = "meta"    -> <<d.summary_all, d.summary_recent5>>
      [] d.kind = "corrupt" -> <<>>
      [] OTHER              -> <<"", "">>

\* C32: between store operations, for every live session the summaries of
\* the persisted metadata equal those of the entry in memory, after any
\* sequence of init, get_or_create and update calls, failed ones included
C32_DiskMatchesMemory ==
    \A i \in DOMAIN cache :
        PersistedSummaries(disk[cache[i].id])
            = <<cache[i].summary_all, cache[i].summary_recent5>>


(***************************************************************************)
(* Evicted sessions restart empty (claim C33).                             *)
(***************************************************************************)
\* the entry get_or_create(id) returns when its file-system calls succeed
Reopened(id) == EntryOf(get_or_create(cache, disk, id, "ok").cache, id)

\* C33: a session id evicted from the store, by capacity or by TTL, and
\* not referenced since has no persisted directory, so the next
\* get_or_create for it yields an empty session: no summaries, no index
C33_EvictedRestartsEmpty ==
    \A id \in store_op.gone :
        /\ id \notin CacheIds(cache)
        /\ disk[id] = NoDir
        /\ Reopened(id).summary_all = ""
        /\ Reopened(id).summary_recent5 = ""
        /\ Reopened(id).index = NoneVal

\* a session that had been referenced was evicted by a call that named
\* another id, and no call has named it since
C33_Witness ==
    /\ store_op.gone # {}
    /\ store_op.evicted # {}
    /\ store_op.id \notin store_op.gone
    /\ \E id \in store_op.gone : \E i \in DOMAIN last_access : last_access[i] = id


(***************************************************************************)
(* The index after a switch (claim C31).                                   *)
(***************************************************************************)
\* call c returned 200 in this step
SwitchSucceeds(c) ==
    /\ switching[c].pc = "summarizing"
    /\ switching'[c].pc = "done"
    /\ switching'[c].status = "200"

\* C31: after switch(session_id, messages) succeeds, the private index of
\* the session is the one built from exactly that message list; after a
\* switch with an empty list no snippet of an earlier turn is retrievable
C31_IndexFromTheseMessages ==
    [][\A c \in SwitchCalls :
          SwitchSucceeds(c) =>
              LET w == switching'[c]
                  e == EntryOf(cache', w.id)
              IN  /\ w.id \in CacheIds(cache')
                  /\ Retrievable(e) = {w.messages[i] : i \in DOMAIN w.messages}
                  /\ w.messages # <<>> => e.index = VectorStoreIndex(w.messages)]_vars


(***************************************************************************)
(* Two concurrent switches of one session (claim C38).                     *)
(***************************************************************************)
\* the summaries and the index reference of entry e are the ones call c
\* computed
FromCall(e, c) ==
    /\ e.summary_all = switching[c].summary_all
    /\ e.summary_recent5 = switching[c].summary_recent5
    /\ e.index = switching[c].index

\* calls c and d ran concurrently on one session and both have completed
BothCompleted(c, d) ==
    /\ c # d
    /\ switching[c].pc = "done"
    /\ switching[d].pc = "done"
    /\ switching[c].id = switching[d].id

\* C38: when two switch calls on the same session run concurrently, after
\* both complete the session's summary_all, summary_recent5 and index
\* reference all come from one and the same call
C38_EntryFromOneCall ==
    \A c \in SwitchCalls, d \in SwitchCalls :
        (BothCompleted(c, d) /\ switching[c].id \in CacheIds(cache)) =>
            LET e == EntryOf(cache, switching[c].id)
            IN  FromCall(e, c) \/ FromCall(e, d)


(***************************************************************************)
(* Queries and the sessions of others (claim C39).                         *)
(***************************************************************************)
\* C39: handling a query, on either path, never removes another session
\* from the store and never deletes the persisted artifacts of another
\* session: a store call made for session id leaves every other live
\* session live and every other directory as it was
C39_QueryKeepsOtherSessions ==
    [][\A s \in SessionIds :
          (store_op'.n # store_op.n /\ s # store_op'.id) =>
              /\ s \in CacheIds(cache) => s \in CacheIds(cache')
              /\ disk'[s] = disk[s]]_vars

====
